---- MODULE Spec2Model ----
(***************************************************************************)
(* Model of the livraria catalogue tool: field validators, CSV export and  *)
(* import (lib/validators.py, lib/file_manager.py) and the record store    *)
(* (lib/db.py).  Text is modelled character by character as TLA+ strings;  *)
(* Python values are tagged records.                                       *)
(***************************************************************************)
EXTENDS Integers, Sequences, FiniteSets, TLC

VARIABLES
    fs,        \* the file system: path -> file text, or NoFile
    store,     \* table livros: sequence of rows ordered by id
    nextId,    \* AUTOINCREMENT counter of table livros
    pc,        \* position of the running call: "idle", or "rows" inside the
               \* row loop of import_from_csv ("val" in the validator harness)
    imp,       \* locals of the running import_from_csv call
    calls,     \* log of the db.add_book calls made by the running import
    ret,       \* value returned by the last finished call
    hist,      \* log of the finished calls, oldest first
    val        \* validator harness: the call made and its outcome

vars == <<fs, store, nextId, pc, imp, calls, ret, hist, val>>

(***************************************************************************)
(* Python values                                                           *)
(***************************************************************************)
None == [t |-> "none"]
PStr(s) == [t |-> "str", s |-> s]
PInt(n) == [t |-> "int", n |-> n]
\* a float: k = "fin" with m the magnitude in thousandths (truncated), neg
\* the sign and rest = TRUE when non-zero digits follow the third decimal;
\* k = "huge" for a magnitude above HugeMilli thousandths (inf included);
\* k = "nan".
\* a finite float; minus zero is identified with zero, as == does
PFin(neg, m, rest) ==
    [t |-> "float", k |-> "fin", neg |-> neg /\ (m > 0 \/ rest), m |-> m, rest |-> rest]
PFloat(m) == PFin(FALSE, m, FALSE)
PHuge(neg) == [t |-> "float", k |-> "huge", neg |-> neg]
PNaN == [t |-> "float", k |-> "nan"]
\* a list or tuple, a mapping (keys to values) and an object (attribute names
\* to values)
PSeq(items) == [t |-> "seq", items |-> items]
PMap(m) == [t |-> "map", m |-> m]
\* a dict: its items (key, value) in insertion order, and the value of each key
PDict(items) ==
    [t |-> "map", items |-> items,
     m |-> [k \in {items[i][1] : i \in 1..Len(items)} |->
              items[CHOOSE i \in 1..Len(items) : items[i][1] = k][2]]]
PObj(attrs) == [t |-> "obj", attrs |-> attrs]

(***************************************************************************)
(* Strings                                                                 *)
(***************************************************************************)
Ch(s, i) == SubSeq(s, i, i)
Chars(s) == {Ch(s, i) : i \in 1..Len(s)}
Contains(s, c) == \E i \in 1..Len(s) : Ch(s, i) = c
MinOf(S) == CHOOSE x \in S : \A y \in S : x <= y
MaxOf(S) == CHOOSE x \in S : \A y \in S : x >= y

\* str.count(c) for a single character c
CountCh(s, c) == Cardinality({i \in 1..Len(s) : Ch(s, i) = c})

\* str.replace(a, b) for a single character a
RECURSIVE ReplaceCh(_, _, _)
ReplaceCh(s, a, b) ==
    IF Len(s) <= 1 THEN (IF s = a THEN b ELSE s)
    ELSE LET h == Len(s) \div 2
         IN  ReplaceCh(SubSeq(s, 1, h), a, b) \o ReplaceCh(SubSeq(s, h + 1, Len(s)), a, b)

\* the characters str.strip() removes
Whitespace == {" ", "\t", "\n", "\r", "\f"}

\* str.strip()
Strip(s) ==
    LET keep == {i \in 1..Len(s) : Ch(s, i) \notin Whitespace}
    IN  IF keep = {} THEN "" ELSE SubSeq(s, MinOf(keep), MaxOf(keep))

UpperAscii == "ABCDEFGHIJKLMNOPQRSTUVWXYZ"
LowerAscii == "abcdefghijklmnopqrstuvwxyz"
DigitChars == "0123456789"
\* the code points U+00C0 .. U+00FF, in order
Latin1Range == "ÀÁÂÃÄÅÆÇÈÉÊËÌÍÎÏÐÑÒÓÔÕÖ×ØÙÚÛÜÝÞßàáâãäåæçèéêëìíîïðñòóôõö÷øùúûüýþÿ"

LowerCh(c) ==
    IF Contains(UpperAscii, c)
    THEN Ch(LowerAscii, CHOOSE i \in 1..Len(UpperAscii) : Ch(UpperAscii, i) = c)
    ELSE IF Contains(SubSeq(Latin1Range, 1, 31), c) /\ c # "×"
    THEN Ch(Latin1Range, 32 + CHOOSE i \in 1..31 : Ch(Latin1Range, i) = c)
    ELSE c

\* str.lower()
RECURSIVE Lower(_)
Lower(s) ==
    IF Len(s) <= 1 THEN LowerCh(s)
    ELSE LET h == Len(s) \div 2
         IN  Lower(SubSeq(s, 1, h)) \o Lower(SubSeq(s, h + 1, Len(s)))

IsDigit(c) == Contains(DigitChars, c)
DigitVal(c) == (CHOOSE i \in 1..Len(DigitChars) : Ch(DigitChars, i) = c) - 1

\* str.isalnum() of one character, for the characters up to U+00FF
Latin1Letters == {c \in Chars(Latin1Range) : c \notin {"×", "÷"}}
IsAlphanumeric(c) ==
    \/ c \in Chars(UpperAscii) \cup Chars(LowerAscii) \cup Chars(DigitChars)
    \/ c \in Latin1Letters
    \/ c \in Chars("ªµº¹²³¼½¾")

\* the character of s at position i, "" outside s
At(s, i) == IF 1 <= i /\ i <= Len(s) THEN Ch(s, i) ELSE ""

\* str(n) for an integer n
RECURSIVE NatToStr(_)
NatToStr(n) ==
    IF n < 10 THEN Ch(DigitChars, n + 1)
    ELSE NatToStr(n \div 10) \o Ch(DigitChars, (n % 10) + 1)
IntToStr(n) == IF n < 0 THEN "-" \o NatToStr(-n) ELSE NatToStr(n)

\* ", ".join(xs)
RECURSIVE Join(_, _)
Join(xs, sep) ==
    IF xs = <<>> THEN ""
    ELSE IF Len(xs) = 1 THEN xs[1]
    ELSE xs[1] \o sep \o Join(Tail(xs), sep)

\* all strings over the characters of alphabet with at most n characters
RECURSIVE StringsUpTo(_, _)
StringsUpTo(alphabet, n) ==
    IF n = 0 THEN {""}
    ELSE LET shorter == StringsUpTo(alphabet, n - 1)
         IN  shorter \cup {s \o c : s \in shorter, c \in Chars(alphabet)}

(***************************************************************************)
(* Results of calls that may raise                                         *)
(***************************************************************************)
Ok(v) == [ok |-> TRUE, v |-> v]
Raise(exc, msg) == [ok |-> FALSE, exc |-> exc, msg |-> msg]

(***************************************************************************)
(* Number parsing and formatting (int(), float(), round(), repr())         *)
(***************************************************************************)
\* the year the clock shows when a validator runs (datetime.now().year)
CurrentYear == 2026

\* digits separated by single underscores: the digit groups int() and
\* float() accept
IsDigitGroup(s) ==
    /\ s # ""
    /\ IsDigit(Ch(s, 1))
    /\ IsDigit(Ch(s, Len(s)))
    /\ \A i \in 1..Len(s) : IsDigit(Ch(s, i)) \/ Ch(s, i) = "_"
    /\ \A i \in 1..(Len(s) - 1) : ~(Ch(s, i) = "_" /\ Ch(s, i + 1) = "_")

\* the value of the digits of s, saturating at cap; underscores are skipped
RECURSIVE DigitsVal(_, _, _)
DigitsVal(s, acc, cap) ==
    IF s = "" THEN acc
    ELSE IF Head(s) = "_" THEN DigitsVal(Tail(s), acc, cap)
    ELSE DigitsVal(Tail(s),
                   IF acc >= (cap - DigitVal(Head(s)) + 9) \div 10 THEN cap
                   ELSE acc * 10 + DigitVal(Head(s)),
                   cap)

\* values of the model's integers stay below this
IntCap == 100000000

HasSign(s) == s # "" /\ Head(s) \in {"+", "-"}
Unsigned(s) == IF HasSign(s) THEN Tail(s) ELSE s

\* int(s) for a string s: Ok(n), or the ValueError int() raises
ParseInt(s) ==
    LET Signed(t, body) ==
            IF IsDigitGroup(body)
            THEN Ok((IF HasSign(t) /\ Head(t) = "-" THEN -1 ELSE 1)
                    * DigitsVal(body, 0, IntCap))
            ELSE Raise("ValueError", "invalid literal for int() with base 10")
        Stripped(t) == Signed(t, Unsigned(t))
    IN  Stripped(Strip(s))

\* thousandths from which a magnitude is modelled as "huge": 2,000,000.000
HugeMilli == 2000000000
\* exponents are clamped to this magnitude (1e30 is already huge, 1e-30 zero)
ExpCap == 30

NonZeroDigit(s) == \E i \in 1..Len(s) : IsDigit(Ch(s, i)) /\ Ch(s, i) # "0"

StripUnderscores(s) == ReplaceCh(s, "_", "")

RECURSIVE TimesTenSat(_, _)
TimesTenSat(m, n) ==
    IF n <= 0 \/ m = 0 THEN m
    ELSE IF m >= HugeMilli \div 10 THEN HugeMilli
    ELSE TimesTenSat(m * 10, n - 1)

\* the float with decimal digits ip.fp times 10^e
DecimalToFloat(neg, ip, fp, e) ==
    LET all == ip \o fp
        pos == Len(ip) + e + 3     \* digits of all that make the thousandths
        head == IF pos <= 0 THEN "" ELSE SubSeq(all, 1, IF pos < Len(all) THEN pos ELSE Len(all))
        tail == IF pos <= 0 THEN all ELSE SubSeq(all, pos + 1, Len(all))
        m == TimesTenSat(DigitsVal(head, 0, HugeMilli), pos - Len(all))
    IN  IF m >= HugeMilli THEN PHuge(neg) ELSE PFin(neg, m, NonZeroDigit(tail))

FirstIndex(s, c) == MinOf({i \in 1..Len(s) : Ch(s, i) = c})

\* float(s) for a string s: Ok(float), or the ValueError float() raises
ParseFloat(s) ==
    LET bad == Raise("ValueError", "could not convert string to float")
        Digits(neg, ipRaw, fpRaw, expS) ==
            IF /\ ipRaw = "" \/ IsDigitGroup(ipRaw)
               /\ fpRaw = "" \/ IsDigitGroup(fpRaw)
               /\ ipRaw # "" \/ fpRaw # ""
               /\ IsDigitGroup(Unsigned(expS))
            THEN Ok(DecimalToFloat(neg, StripUnderscores(ipRaw), StripUnderscores(fpRaw),
                                   (IF HasSign(expS) /\ Head(expS) = "-" THEN -1 ELSE 1)
                                   * DigitsVal(Unsigned(expS), 0, ExpCap)))
            ELSE bad
        Mantissa(neg, mant, dot, expS) ==
            Digits(neg,
                   IF dot > 0 THEN SubSeq(mant, 1, dot - 1) ELSE mant,
                   IF dot > 0 THEN SubSeq(mant, dot + 1, Len(mant)) ELSE "",
                   expS)
        Exponent(neg, mant, expS) ==
            Mantissa(neg, mant, IF Contains(mant, ".") THEN FirstIndex(mant, ".") ELSE 0, expS)
        Body(neg, body, e) ==
            IF body \in {"inf", "infinity"} THEN Ok(PHuge(neg))
            ELSE IF body = "nan" THEN Ok(PNaN)
            ELSE Exponent(neg,
                          IF e > 0 THEN SubSeq(body, 1, e - 1) ELSE body,
                          IF e > 0 THEN SubSeq(body, e + 1, Len(body)) ELSE "0")
        Unsign(neg, body) ==
            Body(neg, body, IF Contains(body, "e") THEN FirstIndex(body, "e") ELSE 0)
        Signed(t) == Unsign(HasSign(t) /\ Head(t) = "-", Unsigned(t))
    IN  Signed(Lower(Strip(s)))

\* x < bound and x > bound for a float x and a bound given in thousandths
FloatLess(x, bound) ==
    CASE x.k = "nan" -> FALSE
      [] x.k = "huge" -> x.neg
      [] x.k = "fin" -> IF x.neg THEN (IF x.rest THEN -x.m <= bound ELSE -x.m < bound)
                        ELSE x.m < bound
FloatGreater(x, bound) ==
    CASE x.k = "nan" -> FALSE
      [] x.k = "huge" -> ~x.neg
      [] x.k = "fin" -> IF x.neg THEN (IF x.rest THEN -(x.m + 1) >= bound ELSE -x.m > bound)
                        ELSE (IF x.rest THEN x.m >= bound ELSE x.m > bound)

RECURSIVE PowMod(_, _, _)
PowMod(b, n, q) == IF n = 0 THEN 1 % q ELSE (b * PowMod(b, n - 1, q)) % q

\* floor(log2(m / 1000)) for m > 0
RECURSIVE Log2Milli(_, _)
Log2Milli(m, e) ==
    IF e >= 0
    THEN (IF m >= 1000 * (2 ^ (e + 1)) THEN Log2Milli(m, e + 1) ELSE e)
    ELSE (IF m * (2 ^ (-e)) >= 2000 THEN Log2Milli(m, e + 1) ELSE e)
FloorLog2Milli(m) == IF m >= 1000 THEN Log2Milli(m, 0) ELSE Log2Milli(m, -10)

\* the binary double nearest to m/1000 lies above m/1000: with 53 significant
\* bits the double is round(m * 2^(k-3) / 125) / 2^k, k = 52 - floor(log2(m/1000))
DoubleAbove(m) ==
    LET k == 52 - FloorLog2Milli(m)
        rho == ((m % 125) * PowMod(2, k - 3, 125)) % 125
    IN  2 * rho > 125

\* round(x, 2): correctly rounded from the double's exact value, ties to even
Round2(x) ==
    IF x.k # "fin" THEN x
    ELSE LET q == x.m \div 10
             r == x.m % 10
             up == \/ r > 5
                   \/ r = 5 /\ x.rest
                   \/ r = 5 /\ ~x.rest /\ x.m % 125 # 0 /\ DoubleAbove(x.m)
                   \/ r = 5 /\ ~x.rest /\ x.m % 125 = 0 /\ q % 2 = 1
         IN  PFin(x.neg, (IF up THEN q + 1 ELSE q) * 10, FALSE)

\* the decimals of repr(float): three digits with trailing zeros dropped,
\* one digit at least
FracDigits(f) ==
    IF f % 100 = 0 THEN NatToStr(f \div 100)
    ELSE IF f % 10 = 0 THEN NatToStr(f \div 100) \o NatToStr((f \div 10) % 10)
    ELSE NatToStr(f \div 100) \o NatToStr((f \div 10) % 10) \o NatToStr(f % 10)

\* repr(x) of a float that is a whole number of thousandths below 10^16
FloatRepr(x) ==
    CASE x.k = "nan" -> "nan"
      [] x.k = "fin" /\ ~x.rest ->
            (IF x.neg THEN "-" ELSE "") \o NatToStr(x.m \div 1000) \o "."
            \o FracDigits(x.m % 1000)

\* str(v)
PyStrOf(v) ==
    CASE v.t = "none" -> "None"
      [] v.t = "str" -> v.s
      [] v.t = "int" -> IntToStr(v.n)
      [] v.t = "float" -> FloatRepr(v)

\* bool(v)
Truthy(v) ==
    CASE v.t = "none" -> FALSE
      [] v.t = "str" -> v.s # ""
      [] v.t = "int" -> v.n # 0
      [] v.t = "float" -> ~(v.k = "fin" /\ v.m = 0 /\ ~v.rest)

(***************************************************************************)
(* lib/validators.py                                                       *)
(***************************************************************************)
_coerce_str(value) == IF value = None THEN "" ELSE Strip(PyStrOf(value))

\* a _normalize_decimal_str that leaves the decimal comma alone
_normalize_decimal_str_plain(s) == ReplaceCh(s, " ", "")

_normalize_decimal_str(s) ==
    LET t == ReplaceCh(s, " ", "")
    IN  IF Contains(t, ",") /\ ~Contains(t, ".") THEN ReplaceCh(t, ",", ".") ELSE t

\* the character class [A-Za-zÀ-ÿ0-9] of validate_text
TextClass == UpperAscii \o LowerAscii \o Latin1Range \o DigitChars

ValidationError(msg) == Raise("ValidationError", msg)

validate_text(label, value, min_len, max_len) ==
    LET Checked(s) ==
            IF Len(s) < min_len
            THEN ValidationError(label \o " não pode ser vazio.")
            ELSE IF Len(s) > max_len
            THEN ValidationError(label \o " deve ter no máximo " \o IntToStr(max_len)
                                 \o " caracteres.")
            ELSE IF ~(\E i \in 1..Len(s) : Contains(TextClass, Ch(s, i)))
            THEN ValidationError(label \o " parece inválido.")
            ELSE Ok(s)
    IN  Checked(_coerce_str(value))

\* a validate_year that turns the year after the current one down
validate_year_exclusive(label, value, min_year, now_year) ==
    LET current_plus_one == now_year + 1
        Checked(year) ==
            IF ~year.ok
            THEN ValidationError(label \o " deve ser um número inteiro (ex.: 1999).")
            ELSE IF year.v < min_year \/ year.v >= current_plus_one
            THEN ValidationError(label \o " deve estar entre " \o IntToStr(min_year)
                                 \o " e " \o IntToStr(current_plus_one) \o ".")
            ELSE Ok(year.v)
        Coerced(s) ==
            IF s = "" THEN ValidationError(label \o " não pode ser vazio.")
            ELSE Checked(ParseInt(s))
    IN  Coerced(_coerce_str(value))

\* validate_year(label, value, min_year=1400), now_year the clock's year
validate_year(label, value, min_year, now_year) ==
    LET current_plus_one == now_year + 1
        Checked(year) ==
            IF ~year.ok
            THEN ValidationError(label \o " deve ser um número inteiro (ex.: 1999).")
            ELSE IF year.v < min_year \/ year.v > current_plus_one
            THEN ValidationError(label \o " deve estar entre " \o IntToStr(min_year)
                                 \o " e " \o IntToStr(current_plus_one) \o ".")
            ELSE Ok(year.v)
        Coerced(s) ==
            IF s = "" THEN ValidationError(label \o " não pode ser vazio.")
            ELSE Checked(ParseInt(s))
    IN  Coerced(_coerce_str(value))

\* "{x:.2f}" of a bound given in thousandths that is a whole number of cents
Format2f(bound) ==
    IntToStr(bound \div 1000) \o "." \o NatToStr((bound % 1000) \div 100)
    \o NatToStr((bound % 100) \div 10)

\* min_value and max_value are given in thousandths
validate_price(label, value, min_value, max_value) ==
    LET Checked(price) ==
            IF ~price.ok
            THEN ValidationError(label \o " deve ser um número (ex.: 35.90).")
            ELSE IF FloatLess(price.v, min_value)
            THEN ValidationError(label \o " deve ser maior ou igual a "
                                 \o Format2f(min_value) \o ".")
            ELSE IF FloatGreater(price.v, max_value)
            THEN ValidationError(label \o " não pode ser maior que "
                                 \o Format2f(max_value) \o ".")
            ELSE Ok(Round2(price.v))
        Coerced(s0) ==
            IF s0 = "" THEN ValidationError(label \o " não pode ser vazio.")
            ELSE Checked(ParseFloat(_normalize_decimal_str(s0)))
    IN  Coerced(_coerce_str(value))

\* the defaults of the keyword arguments
DefaultMinLen == 1
DefaultMaxLen == 200
DefaultMinYear == 1400
DefaultMinPrice == 0
DefaultMaxPrice == 1000000000

(***************************************************************************)
(* Text files and the csv module as lib/file_manager.py uses them          *)
(***************************************************************************)
\* open(path, "r") without newline="": "\r\n" and "\r" are read as "\n"
RECURSIVE ReadText(_)
ReadText(text) ==
    IF Len(text) <= 1 \/ text = "\r\n"
    THEN (IF text \in {"\r", "\r\n"} THEN "\n" ELSE text)
    ELSE LET half == Len(text) \div 2
             \* never cut between a "\r" and its "\n"
             h == IF Ch(text, half) = "\r" /\ Ch(text, half + 1) = "\n"
                  THEN half + 1 ELSE half
         IN  ReadText(SubSeq(text, 1, h)) \o ReadText(SubSeq(text, h + 1, Len(text)))

\* f.read(4096)
SampleSize == 4096
Sample(text) == SubSeq(text, 1, IF Len(text) < SampleSize THEN Len(text) ELSE SampleSize)

\* the lines a text file yields, each with its "\n"
RECURSIVE FileLines(_)
FileLines(text) ==
    IF text = "" THEN <<>>
    ELSE IF Contains(text, "\n")
    THEN <<SubSeq(text, 1, FirstIndex(text, "\n"))>>
         \o FileLines(SubSeq(text, FirstIndex(text, "\n") + 1, Len(text)))
    ELSE <<text>>

\* str.split("\n")
RECURSIVE SplitLines(_)
SplitLines(text) ==
    IF Contains(text, "\n")
    THEN <<SubSeq(text, 1, FirstIndex(text, "\n") - 1)>>
         \o SplitLines(SubSeq(text, FirstIndex(text, "\n") + 1, Len(text)))
    ELSE <<text>>

\* csv.excel
ExcelDialect ==
    [delimiter |-> ",", quotechar |-> "\"", doublequote |-> TRUE,
     skipinitialspace |-> FALSE]

\* csv.Sniffer: the regular expressions' character classes and anchors
IsWordCh(c) == IsAlphanumeric(c) \/ c = "_"
QuoteChars == {"\"", "'"}
DelimClass(c) == c # "" /\ ~IsWordCh(c) /\ c \notin {"\n", "\"", "'"}
LineStart(s, i) == i = 1 \/ At(s, i - 1) = "\n"
LineEnd(s, j) == j = Len(s) \/ At(s, j + 1) = "\n"

NoMatch == [found |-> FALSE]
Match(end, quote, delim, space) ==
    [found |-> TRUE, end |-> end, quote |-> quote, delim |-> delim, space |-> space]

\* the match of each expression that starts at position i, if there is one:
\*   1  delim space? quote .*? quote delim
\*   2  (^|\n) quote .*? quote delim space?
\*   3  delim space? quote .*? quote ($|\n)
\*   4  (^|\n) quote .*? quote ($|\n)
QuoteAfterDelim(s, i) == IF At(s, i + 1) = " " THEN i + 2 ELSE i + 1
QuoteAtLineStart(s, i) == IF At(s, i) = "\n" THEN i + 1 ELSE i

Regex1At(s, i) ==
    LET d == At(s, i)
        qpos == QuoteAfterDelim(s, i)
        q == At(s, qpos)
        closing == {j \in (qpos + 1)..Len(s) : Ch(s, j) = q /\ At(s, j + 1) = d}
    IN  IF DelimClass(d) /\ q \in QuoteChars /\ closing # {}
        THEN Match(MinOf(closing) + 1, q, d, qpos = i + 2)
        ELSE NoMatch

Regex2At(s, i) ==
    LET qpos == QuoteAtLineStart(s, i)
        q == At(s, qpos)
        closing == {j \in (qpos + 1)..Len(s) : Ch(s, j) = q /\ DelimClass(At(s, j + 1))}
        j == MinOf(closing)
    IN  IF (LineStart(s, i) \/ At(s, i) = "\n") /\ q \in QuoteChars /\ closing # {}
        THEN Match(IF At(s, j + 2) = " " THEN j + 2 ELSE j + 1, q, At(s, j + 1),
                   At(s, j + 2) = " ")
        ELSE NoMatch

Regex3At(s, i) ==
    LET d == At(s, i)
        qpos == QuoteAfterDelim(s, i)
        q == At(s, qpos)
        closing == {j \in (qpos + 1)..Len(s) : Ch(s, j) = q /\ LineEnd(s, j)}
    IN  IF DelimClass(d) /\ q \in QuoteChars /\ closing # {}
        THEN Match(MinOf(closing), q, d, qpos = i + 2)
        ELSE NoMatch

Regex4At(s, i) ==
    LET qpos == QuoteAtLineStart(s, i)
        q == At(s, qpos)
        closing == {j \in (qpos + 1)..Len(s) : Ch(s, j) = q /\ LineEnd(s, j)}
    IN  IF (LineStart(s, i) \/ At(s, i) = "\n") /\ q \in QuoteChars /\ closing # {}
        THEN Match(MinOf(closing), q, "", FALSE)
        ELSE NoMatch

RegexAt(n, s, i) ==
    CASE n = 1 -> Regex1At(s, i)
      [] n = 2 -> Regex2At(s, i)
      [] n = 3 -> Regex3At(s, i)
      [] n = 4 -> Regex4At(s, i)

\* regexp.findall(data): the matches from left to right, none overlapping
RECURSIVE FindAll(_, _, _)
FindAll(n, s, from) ==
    LET Rest(m) == <<m>> \o FindAll(n, s, m.end + 1)
        From(starts) ==
            IF starts = {} THEN <<>> ELSE Rest(RegexAt(n, s, MinOf(starts)))
    IN  From({i \in from..Len(s) : RegexAt(n, s, i).found})

\* max(counts, key=counts.get): the key counted most often, the one seen
\* first among equals; keys lists one key per match
CountOf(keys, k) == Cardinality({i \in 1..Len(keys) : keys[i] = k})
MostCounted(keys) ==
    LET best == MaxOf({CountOf(keys, keys[i]) : i \in 1..Len(keys)})
    IN  keys[MinOf({i \in 1..Len(keys) : CountOf(keys, keys[i]) = best})]

\* dq_regexp.search(data): quote, quote, quote on one stretch free of the
\* delimiter and of newlines, non-word characters around, between two
\* delimiters (or line ends)
NonWordRun(s, a, b) == \A i \in a..b : ~IsWordCh(Ch(s, i))
FreeRun(s, a, b, delim) == \A i \in a..b : Ch(s, i) # "\n" /\ Ch(s, i) # delim
DoubleQuoteSeen(s, delim, quote) ==
    LET Q == {i \in 1..Len(s) : Ch(s, i) = quote}
    IN  \E q1 \in Q : \E q2 \in Q : \E q3 \in Q :
          /\ q1 < q2 /\ q2 < q3
          /\ FreeRun(s, q1 + 1, q2 - 1, delim)
          /\ FreeRun(s, q2 + 1, q3 - 1, delim)
          /\ \E b \in 1..q1 :
                /\ NonWordRun(s, b, q1 - 1)
                /\ delim = "" \/ LineStart(s, b) \/ At(s, b - 1) = delim
          /\ \E e \in q3..Len(s) :
                /\ NonWordRun(s, q3 + 1, e)
                /\ delim = "" \/ LineEnd(s, e) \/ At(s, e + 1) = delim

\* Sniffer._guess_quote_and_delimiter
_guess_quote_and_delimiter(data, delimiters) ==
    LET Guess(quotechar, delims, delim, spaces) ==
            [quotechar |-> quotechar,
             doublequote |-> DoubleQuoteSeen(data, delim, quotechar),
             delimiter |-> delim,
             skipinitialspace |-> delims # <<>> /\ CountOf(delims, delim) = spaces]
        Counted(quotes, delims, spaces) ==
            Guess(MostCounted(quotes), delims,
                  IF delims = <<>> THEN "" ELSE MostCounted(delims), spaces)
        Grouped(matches, withDelim) ==
            Counted([i \in 1..Len(matches) |-> matches[i].quote],
                    [i \in 1..Len(withDelim) |-> withDelim[i].delim],
                    Cardinality({i \in 1..Len(matches) : matches[i].space}))
        Matched(matches) ==
            Grouped(matches,
                    SelectSeq(matches,
                              LAMBDA m : m.delim # "" /\ Contains(delimiters, m.delim)))
        Tried(tried) ==
            IF tried = {}
            THEN [quotechar |-> "", doublequote |-> FALSE, delimiter |-> "",
                  skipinitialspace |-> FALSE]
            ELSE Matched(FindAll(MinOf(tried), data, 1))
    IN  Tried({n \in 1..4 : FindAll(n, data, 1) # <<>>})

\* lines of a chunk, and the order in which the Sniffer prefers delimiters
ChunkLength == 10
Preferred == <<",", "\t", ";", " ", ":">>

\* data[0].count(delim) == data[0].count(delim + " ")
SpaceAfterEvery(line, delim) ==
    \A i \in 1..Len(line) : Ch(line, i) = delim => At(line, i + 1) = " "

\* Sniffer._guess_delimiter, for a sample of at most ChunkLength non-empty
\* lines: within one chunk a character is kept only when it occurs the same
\* number of times, at least once, on every line
_guess_delimiter(data, delimiters) ==
    LET Chosen(lines, delim) ==
            [delimiter |-> delim, skipinitialspace |-> SpaceAfterEvery(lines[1], delim)]
        Kept(lines, kept) ==
            IF kept = {} THEN [delimiter |-> "", skipinitialspace |-> FALSE]
            ELSE IF Cardinality(kept) = 1 THEN Chosen(lines, CHOOSE c \in kept : TRUE)
            ELSE Chosen(lines,
                        Preferred[MinOf({i \in 1..Len(Preferred) : Preferred[i] \in kept})])
        Lines(lines) ==
            CASE Len(lines) <= ChunkLength ->
                Kept(lines,
                     {c \in Chars(delimiters) :
                        /\ lines # <<>>
                        /\ CountCh(lines[1], c) > 0
                        /\ \A i \in 1..Len(lines) :
                              CountCh(lines[i], c) = CountCh(lines[1], c)})
    IN  Lines(SelectSeq(SplitLines(data), LAMBDA l : l # ""))

\* Sniffer.sniff: the dialect, or the Error it raises
Sniff(sample, delimiters) ==
    LET Dialect(g, h) ==
            IF h.delimiter = "" THEN Raise("Error", "Could not determine delimiter")
            ELSE Ok([delimiter |-> h.delimiter,
                     quotechar |-> IF g.quotechar = "" THEN "\"" ELSE g.quotechar,
                     doublequote |-> g.doublequote,
                     skipinitialspace |-> h.skipinitialspace])
        Guessed(g) ==
            Dialect(g, IF g.delimiter = "" THEN _guess_delimiter(sample, delimiters)
                       ELSE [delimiter |-> g.delimiter,
                             skipinitialspace |-> g.skipinitialspace])
    IN  Guessed(_guess_quote_and_delimiter(sample, delimiters))

\* the delimiters both import paths let the Sniffer choose from
SniffDelimiters == ",;\t|"

\* FileManager._detect_dialect, and the same steps inside import_from_csv
_detect_dialect(sample_text) ==
    LET Sniffed(sniffed) == IF sniffed.ok THEN sniffed.v ELSE ExcelDialect
    IN  Sniffed(Sniff(sample_text, SniffDelimiters))

\* the end-of-line mark the reader feeds itself after each line
EOL == "EOL"

\* one character through the reader's state machine; st holds the state,
\* the field being read and the fields of the record so far
SaveField(st, state) == [state |-> state, field |-> "", fields |-> Append(st.fields, st.field)]
AddChar(st, c, state) == [st EXCEPT !.state = state, !.field = st.field \o c]

ProcessStartField(st, c, d) ==
    IF c \in {"\n", "\r", EOL}
    THEN SaveField(st, IF c = EOL THEN "START_RECORD" ELSE "EAT_CRNL")
    ELSE IF c = d.quotechar THEN [st EXCEPT !.state = "IN_QUOTED_FIELD"]
    ELSE IF c = " " /\ d.skipinitialspace THEN [st EXCEPT !.state = "START_FIELD"]
    ELSE IF c = d.delimiter THEN SaveField(st, "START_FIELD")
    ELSE AddChar(st, c, "IN_FIELD")

ProcessChar(st, c, d) ==
    CASE st.state = "START_RECORD" ->
            IF c = EOL THEN st
            ELSE IF c \in {"\n", "\r"} THEN [st EXCEPT !.state = "EAT_CRNL"]
            ELSE ProcessStartField(st, c, d)
      [] st.state = "START_FIELD" -> ProcessStartField(st, c, d)
      [] st.state = "IN_FIELD" ->
            IF c \in {"\n", "\r", EOL}
            THEN SaveField(st, IF c = EOL THEN "START_RECORD" ELSE "EAT_CRNL")
            ELSE IF c = d.delimiter THEN SaveField(st, "START_FIELD")
            ELSE AddChar(st, c, "IN_FIELD")
      [] st.state = "IN_QUOTED_FIELD" ->
            IF c = EOL THEN st
            ELSE IF c = d.quotechar
            THEN [st EXCEPT !.state = IF d.doublequote THEN "QUOTE_IN_QUOTED_FIELD"
                                      ELSE "IN_FIELD"]
            ELSE AddChar(st, c, "IN_QUOTED_FIELD")
      [] st.state = "QUOTE_IN_QUOTED_FIELD" ->
            IF c = d.quotechar THEN AddChar(st, c, "IN_QUOTED_FIELD")
            ELSE IF c = d.delimiter THEN SaveField(st, "START_FIELD")
            ELSE IF c \in {"\n", "\r", EOL}
            THEN SaveField(st, IF c = EOL THEN "START_RECORD" ELSE "EAT_CRNL")
            ELSE AddChar(st, c, "IN_FIELD")
      [] st.state = "EAT_CRNL" ->
            \* a line holds no character after its "\n"
            IF c = EOL THEN [st EXCEPT !.state = "START_RECORD"] ELSE st

\* the characters of s through the state machine, from left to right
RECURSIVE ProcessChars(_, _, _)
ProcessChars(st, s, d) ==
    IF s = "" THEN st
    ELSE IF Len(s) = 1 THEN ProcessChar(st, s, d)
    ELSE LET h == Len(s) \div 2
             left == ProcessChars(st, SubSeq(s, 1, h), d)
         \* once the line's newline is eaten nothing is left to read
         IN  IF left.state = "EAT_CRNL" THEN left
             ELSE ProcessChars(left, SubSeq(s, h + 1, Len(s)), d)

\* one line through the state machine, then the end-of-line mark
ProcessLine(st, line, d) == ProcessChar(ProcessChars(st, line, d), EOL, d)

ReaderReset == [state |-> "START_RECORD", field |-> "", fields |-> <<>>]

\* csv.reader over the lines: the records read, each a sequence of fields
RECURSIVE ReadRecords(_, _, _)
ReadRecords(lines, st, d) ==
    LET After(after) ==
            IF after.state = "START_RECORD"
            THEN <<after.fields>> \o ReadRecords(Tail(lines), ReaderReset, d)
            ELSE ReadRecords(Tail(lines), after, d)
    IN  IF lines = <<>>
        THEN (IF st.field # "" \/ st.state = "IN_QUOTED_FIELD"
              THEN <<Append(st.fields, st.field)>> ELSE <<>>)
        ELSE After(ProcessLine(st, Head(lines), d))

CsvReader(text, d) == ReadRecords(FileLines(text), ReaderReset, d)

\* csv.DictReader: the field names and one mapping per non-empty record;
\* a record shorter than the header maps the missing names to None, a
\* repeated name keeps its last field
DictRow(names, record) ==
    [k \in {names[i] : i \in 1..Len(names)} |->
        LET last == MaxOf({i \in 1..Len(names) : names[i] = k})
        IN  IF last <= Len(record) THEN PStr(record[last]) ELSE None]

DictReader(text, d) ==
    LET Rows(names, data) ==
            [fieldnames |-> names,
             rows |-> [i \in 1..Len(data) |-> DictRow(names, data[i])]]
        Records(records) ==
            IF records = <<>> THEN Rows(<<>>, <<>>)
            ELSE Rows(Head(records), SelectSeq(Tail(records), LAMBDA r : r # <<>>))
    IN  Records(CsvReader(text, d))

(***************************************************************************)
(* lib/db.py: the table livros                                             *)
(***************************************************************************)
\* the unique index on (titulo, autor, ano_publicacao)
SameKey(b, titulo, autor, ano) ==
    b.titulo = titulo /\ b.autor = autor /\ b.ano_publicacao = ano

\* sqlite3 binds None, and a NaN float, as NULL
IsNull(v) == v = None \/ v = PNaN

\* DBManager.add_book: INSERT OR IGNORE; the row count returned, the table
\* and the AUTOINCREMENT counter afterwards (an ignored insert uses up an id)
add_book(table, counter, titulo, autor, ano, preco) ==
    LET ignored == \/ IsNull(preco)
                   \/ \E k \in 1..Len(table) : SameKey(table[k], titulo, autor, ano)
    IN  [rowcount |-> IF ignored THEN 0 ELSE 1,
         store |-> IF ignored THEN table
                   ELSE Append(table, [id |-> counter, titulo |-> titulo, autor |-> autor,
                                       ano_publicacao |-> ano, preco |-> preco]),
         nextId |-> counter + 1]

\* DBManager.get_all_books: the rows as tuples, ordered by id
get_all_books(table) ==
    [k \in 1..Len(table) |->
        PSeq(<<PInt(table[k].id), PStr(table[k].titulo), PStr(table[k].autor),
               PInt(table[k].ano_publicacao), table[k].preco>>)]

\* an int that sqlite3 cannot bind: outside the signed 64-bit range
PWide(neg) == [t |-> "int", wide |-> TRUE, neg |-> neg]
IsWide(book_id) == "wide" \in DOMAIN book_id
TooLarge == Raise("OverflowError", "Python int too large to convert to SQLite INTEGER")

\* DBManager.update_price: UPDATE ... WHERE id = ?; the row count and the
\* table afterwards, or the exception sqlite3 raises
update_price(table, book_id, new_price) ==
    IF IsWide(book_id) THEN TooLarge
    ELSE IF ~\E k \in 1..Len(table) : table[k].id = book_id.n
    THEN Ok([rowcount |-> 0, store |-> table])
    ELSE IF IsNull(new_price)
    THEN Raise("IntegrityError", "NOT NULL constraint failed: livros.preco")
    ELSE Ok([rowcount |-> 1,
             store |-> [k \in 1..Len(table) |->
                          IF table[k].id = book_id.n
                          THEN [table[k] EXCEPT !.preco = new_price] ELSE table[k]]])

\* DBManager.remove_book: DELETE ... WHERE id = ?
remove_book(table, book_id) ==
    IF IsWide(book_id) THEN TooLarge
    ELSE Ok([rowcount |-> IF \E k \in 1..Len(table) : table[k].id = book_id.n THEN 1 ELSE 0,
             store |-> SelectSeq(table, LAMBDA b : b.id # book_id.n)])

(***************************************************************************)
(* lib/mapping.py                                                          *)
(***************************************************************************)
\* the accepted header names of each canonical column
CSV_COLUMN_ALIASES ==
    [titulo |-> <<"titulo", "title">>,
     autor |-> <<"autor", "author">>,
     ano_publicacao |-> <<"ano_publicacao", "ano", "year">>,
     preco |-> <<"preco", "price">>]

(***************************************************************************)
(* The file system                                                         *)
(***************************************************************************)
\* what a path names: a text file, or nothing
File(text) == [t |-> "file", text |-> text]
NoFile == [t |-> "nofile"]
NoImport == [t |-> "noimport"]

\* the working directory and the application's base directory
Cwd == "/w"
BaseDir == "/app"
\* Path(csv_path).expanduser().resolve()
Resolve(path) == IF path # "" /\ Head(path) = "/" THEN path ELSE Cwd \o "/" \o path
\* FileManager.exports_dir / outfile_name
ExportsDir == BaseDir \o "/exports"
DefaultOutfile == "livros_exportados.csv"
ExportPath(outfile_name) == ExportsDir \o "/" \o outfile_name

Exists(path) == path \in DOMAIN fs /\ fs[path] # NoFile

(***************************************************************************)
(* lib/file_manager.py: import_from_csv                                    *)
(***************************************************************************)
\* raw_headers: the field names stripped, None read as ""
RawHeaders(fieldnames) == [k \in 1..Len(fieldnames) |-> Strip(fieldnames[k])]

\* headers_map = {h.lower(): h for h in raw_headers}: a later header replaces
\* an earlier one with the same lower-case form
HeadersMap(raw_headers) ==
    [k \in {Lower(raw_headers[j]) : j \in 1..Len(raw_headers)} |->
        raw_headers[MaxOf({j \in 1..Len(raw_headers) : Lower(raw_headers[j]) = k})]]

\* a pick that looks for the first name only
pick_first(headers_map, keys_lower) ==
    IF keys_lower[1] \in DOMAIN headers_map THEN PStr(headers_map[keys_lower[1]]) ELSE None

\* a pick that takes the last synonym present
pick_last(headers_map, keys_lower) ==
    LET found == {j \in 1..Len(keys_lower) : keys_lower[j] \in DOMAIN headers_map}
    IN  IF found = {} THEN None ELSE PStr(headers_map[keys_lower[MaxOf(found)]])

\* pick(*keys_lower): the header of the first synonym present, else None
pick(headers_map, keys_lower) ==
    LET found == {j \in 1..Len(keys_lower) : keys_lower[j] \in DOMAIN headers_map}
    IN  IF found = {} THEN None ELSE PStr(headers_map[keys_lower[MinOf(found)]])

\* the synonyms import_from_csv accepts for each column, in priority order
TituloKeys == <<"titulo", "title">>
AutorKeys == <<"autor", "author">>
AnoKeys == <<"ano_publicacao", "ano", "year">>
PrecoKeys == <<"preco", "price">>

ResolveColumns(headers_map) ==
    [titulo |-> pick(headers_map, TituloKeys),
     autor |-> pick(headers_map, AutorKeys),
     ano_publicacao |-> pick(headers_map, AnoKeys),
     preco |-> pick(headers_map, PrecoKeys)]

\* the canonical names, in the order the code lists them
CanonicalNames == <<"titulo", "autor", "ano_publicacao", "preco">>

\* a header check that lets every header through
Missing_unchecked(cols) == <<>>

\* missing: the canonical names whose column is None
Missing(cols) == SelectSeq(CanonicalNames, LAMBDA name : cols[name] = None)

MissingHeaderMessage(missing) ==
    "Cabeçalho inválido. Esperado pelo menos as colunas: "
    \o "titulo (ou title), autor (ou author), ano_publicacao (ou ano/year), "
    \o "preco (ou price). "
    \o "Faltando: " \o Join(missing, ", ")

NotFoundMessage(p) == "Arquivo não encontrado: " \o p

\* row.get(col, "") if col else ""
RowGet(row, col) ==
    IF ~Truthy(col) THEN PStr("")
    ELSE IF col.s \in DOMAIN row THEN row[col.s] ELSE PStr("")

\* the body of the try block up to the call of db.add_book: the validated
\* values of one row, or the exception raised
RowValues(row, cols) ==
    LET Price(titulo, autor, ano, preco) ==
            IF ~preco.ok THEN preco
            ELSE Ok([titulo |-> titulo.v, autor |-> autor.v, ano |-> ano.v,
                     preco |-> preco.v])
        PriceString(spaceless) ==
            IF Contains(spaceless, ",") /\ ~Contains(spaceless, ".")
            THEN ReplaceCh(spaceless, ",", ".") ELSE spaceless
        Year(titulo, autor, ano) ==
            IF ~ano.ok THEN ano
            ELSE Price(titulo, autor, ano,
                       validate_price("Preço",
                                      PStr(PriceString(ReplaceCh(PyStrOf(RowGet(row, cols.preco)),
                                                                 " ", ""))),
                                      DefaultMinPrice, DefaultMaxPrice))
        Author(titulo, autor) ==
            IF ~autor.ok THEN autor
            ELSE Year(titulo, autor,
                      validate_year("Ano de publicação", RowGet(row, cols.ano_publicacao),
                                    DefaultMinYear, CurrentYear))
        Title(titulo) ==
            IF ~titulo.ok THEN titulo
            ELSE Author(titulo,
                        validate_text("Autor", RowGet(row, cols.autor),
                                      DefaultMinLen, DefaultMaxLen))
    IN  Title(validate_text("Título", RowGet(row, cols.titulo),
                            DefaultMinLen, DefaultMaxLen))

\* rows numbered from 1, as if the file had no header line
LineNumber_from1(pos) == pos + 1

\* enumerate(reader, start=2): the number given to the data row at 0-based
\* position pos
LineNumber(pos) == pos + 2

\* the locals after a row whose try block ran to its end
AfterInserted(l, rowcount) ==
    [l EXCEPT !.pos = @ + 1, !.inserted = @ + 1]

\* a row loop that stops at the first row that raises
AfterSkipped_break(l, i, e) ==
    [l EXCEPT !.pos = Len(l.rows), !.skipped = @ + 1,
              !.errors = Append(@, "Linha " \o IntToStr(i) \o ": " \o e.msg)]

\* a handler that records the error and leaves the counter as it was
AfterSkipped_uncounted(l, i, e) ==
    [l EXCEPT !.pos = @ + 1,
              !.errors = Append(@, "Linha " \o IntToStr(i) \o ": " \o e.msg)]

\* the locals after a row whose try block raised e
AfterSkipped(l, i, e) ==
    [l EXCEPT !.pos = @ + 1, !.skipped = @ + 1,
              !.errors = Append(@, "Linha " \o IntToStr(i) \o ": " \o e.msg)]

\* lines 184-192: the file read as text, its dialect sniffed from the first
\* SampleSize characters, and the DictReader over it
OpenReader(content) ==
    LET Opened(text) == DictReader(text, _detect_dialect(Sample(text)))
    IN  Opened(ReadText(content))

\* calls of this session that the model follows
MaxCalls == 2

\* the entry a finished call leaves in the log
Finished(fn, path, input, before, result, log, processed) ==
    [fn |-> fn, path |-> path, input |-> input, before |-> before, ret |-> result,
     calls |-> log, processed |-> processed]

\* import_from_csv(db, csv_path) up to the row loop: lines 176-219
ImportStart(csv_path) ==
    /\ pc = "idle"
    /\ Len(hist) < MaxCalls
    /\ LET Fail(p, failure) ==
               /\ ret' = <<0, 0, <<failure>>>>
               /\ hist' = Append(hist, Finished("import_from_csv", p,
                                                IF Exists(p) THEN fs[p] ELSE NoFile,
                                                store, <<0, 0, <<failure>>>>, <<>>, 0))
               /\ calls' = <<>>
               /\ UNCHANGED <<pc, imp>>
           Loop(p, reader, cols) ==
               /\ pc' = "rows"
               /\ imp' = [path |-> p, input |-> fs[p], before |-> store, cols |-> cols,
                          rows |-> reader.rows, pos |-> 0,
                          inserted |-> 0, skipped |-> 0, errors |-> <<>>]
               /\ calls' = <<>>
               /\ UNCHANGED <<ret, hist>>
           Headers(p, reader, cols, missing) ==
               IF missing # <<>> THEN Fail(p, MissingHeaderMessage(missing))
               ELSE Loop(p, reader, cols)
           Resolved(p, reader, cols) == Headers(p, reader, cols, Missing(cols))
           Opened(p, reader) ==
               Resolved(p, reader,
                        ResolveColumns(HeadersMap(RawHeaders(reader.fieldnames))))
           Start(p) ==
               IF ~Exists(p) THEN Fail(p, NotFoundMessage(p))
               ELSE Opened(p, OpenReader(fs[p].text))
       IN  Start(Resolve(csv_path))
    /\ UNCHANGED <<fs, store, nextId, val>>

\* one turn of the row loop: lines 221-247
ImportRow ==
    /\ pc = "rows"
    /\ imp.pos < Len(imp.rows)
    /\ LET Added(i, v, added) ==
               /\ store' = added.store
               /\ nextId' = added.nextId
               /\ calls' = Append(calls, [line |-> i, titulo |-> v.titulo,
                                          autor |-> v.autor, ano |-> v.ano,
                                          preco |-> v.preco,
                                          rowcount |-> added.rowcount])
               /\ imp' = AfterInserted(imp, added.rowcount)
           Valid(i, v) ==
               Added(i, v, add_book(store, nextId, v.titulo, v.autor, v.ano, v.preco))
           Tried(i, values) ==
               IF values.ok THEN Valid(i, values.v)
               ELSE /\ imp' = AfterSkipped(imp, i, values)
                    /\ UNCHANGED <<store, nextId, calls>>
       IN  Tried(LineNumber(imp.pos), RowValues(imp.rows[imp.pos + 1], imp.cols))
    /\ UNCHANGED <<fs, pc, ret, hist, val>>

\* the exceptions sqlite3 raises from db.add_book when the database cannot
\* be written
StorageErrors ==
    {Raise("OperationalError", "database is locked"),
     Raise("OperationalError", "attempt to write a readonly database")}

\* a handler for the validators' exception only
Catches_validation(exc) == exc = "ValidationError"

\* except Exception: every exception but those deriving from BaseException alone
Catches(exc) == exc \notin {"KeyboardInterrupt", "SystemExit", "GeneratorExit"}

\* one turn of the row loop in which db.add_book raises: lines 241 and 244-247
ImportRowStorageError ==
    /\ pc = "rows"
    /\ imp.pos < Len(imp.rows)
    /\ RowValues(imp.rows[imp.pos + 1], imp.cols).ok
    /\ \E e \in StorageErrors :
          IF Catches(e.exc)
          THEN /\ imp' = AfterSkipped(imp, LineNumber(imp.pos), e)
               /\ UNCHANGED <<pc, ret>>
          ELSE /\ pc' = "raised"
               /\ ret' = e
               /\ imp' = NoImport
    /\ UNCHANGED <<fs, store, nextId, calls, hist, val>>

\* the reader is exhausted: line 249
ImportReturn ==
    /\ pc = "rows"
    /\ imp.pos = Len(imp.rows)
    /\ pc' = "idle"
    /\ ret' = <<imp.inserted, imp.skipped, imp.errors>>
    /\ hist' = Append(hist, Finished("import_from_csv", imp.path, imp.input, imp.before,
                                     <<imp.inserted, imp.skipped, imp.errors>>, calls,
                                     imp.pos))
    /\ imp' = NoImport
    /\ UNCHANGED <<fs, store, nextId, calls, val>>


(***************************************************************************)
(* lib/file_manager.py: FileManager._normalize_row and export_to_csv       *)
(***************************************************************************)
\* a or b
PyOr(a, b) == IF Truthy(a) THEN a ELSE b
\* item.get(key), and getattr(item, name, None)
MapGet(m, key) == IF key \in DOMAIN m THEN m[key] ELSE None

\* FileManager._normalize_row: (id, titulo, autor, ano_publicacao, preco)
FM_normalize_row(item) ==
    CASE item.t = "map" ->
            <<MapGet(item.m, "id"),
              PyOr(MapGet(item.m, "titulo"), MapGet(item.m, "title")),
              PyOr(MapGet(item.m, "autor"), MapGet(item.m, "author")),
              PyOr(PyOr(MapGet(item.m, "ano_publicacao"), MapGet(item.m, "ano")),
                   MapGet(item.m, "year")),
              PyOr(MapGet(item.m, "preco"), MapGet(item.m, "price"))>>
      [] item.t = "seq" ->
            IF Len(item.items) >= 5 THEN SubSeq(item.items, 1, 5)
            ELSE IF Len(item.items) = 4 THEN <<None>> \o item.items
            ELSE [k \in 1..5 |-> IF k <= Len(item.items) THEN item.items[k] ELSE None]
      [] item.t = "obj" ->
            <<MapGet(item.attrs, "id"), MapGet(item.attrs, "titulo"),
              MapGet(item.attrs, "autor"), MapGet(item.attrs, "ano_publicacao"),
              MapGet(item.attrs, "preco")>>

(***************************************************************************)
(* lib/mapping.py: KEY_MAP, and lib/validators.py: _normalize_row          *)
(***************************************************************************)
KEY_MAP ==
    [k \in {"id", "titulo", "title", "autor", "author", "ano_publicacao", "ano", "year",
            "preco", "price"} |->
        CASE k = "id" -> "id"
          [] k \in {"titulo", "title"} -> "titulo"
          [] k = "autor" -> "autor"
          [] k = "author" -> "author"
          [] k \in {"ano_publicacao", "ano", "year"} -> "ano_publicacao"
          [] k \in {"preco", "price"} -> "preco"]

\* mapping.KEY_MAP.get(str(k).lower(), k)
KeyMapGet(k) == IF Lower(k) \in DOMAIN KEY_MAP THEN KEY_MAP[Lower(k)] ELSE k

\* {KEY_MAP.get(str(k).lower(), k): v for k, v in item.items()}: a later
\* item replaces an earlier one renamed to the same key
RECURSIVE RenamedItems(_)
RenamedItems(items) ==
    IF items = <<>> THEN <<>>
    ELSE LET Put(d, key, v) == [k \in DOMAIN d \cup {key} |-> IF k = key THEN v ELSE d[k]]
         IN  Put(RenamedItems(SubSeq(items, 1, Len(items) - 1)),
                 KeyMapGet(items[Len(items)][1]), items[Len(items)][2])

\* a padding that puts the nulls first
Padded_left(items) ==
    [k \in 1..5 |-> IF k <= 5 - Len(items) THEN None ELSE items[k - (5 - Len(items))]]

\* list(item[:5]) + [None] * max(0, 5 - len(item))
Padded(items) ==
    SubSeq(items, 1, IF Len(items) < 5 THEN Len(items) ELSE 5)
    \o [k \in 1..(IF Len(items) < 5 THEN 5 - Len(items) ELSE 0) |-> None]

\* validators._normalize_row: (id, titulo, autor, ano_publicacao, preco)
_normalize_row(item) ==
    CASE item.t = "map" ->
            LET Read(d) == <<MapGet(d, "id"), MapGet(d, "titulo"), MapGet(d, "autor"),
                             MapGet(d, "ano_publicacao"), MapGet(d, "preco")>>
            IN  Read(RenamedItems(item.items))
      [] item.t = "seq" ->
            IF Len(item.items) >= 5 THEN SubSeq(item.items, 1, 5)
            ELSE IF Len(item.items) = 4 THEN <<None>> \o item.items
            ELSE LET Five(padded) == <<padded[1], padded[2], padded[3], padded[4], padded[5]>>
                 IN  Five(Padded(item.items))
      [] item.t = "obj" ->
            <<MapGet(item.attrs, "id"), MapGet(item.attrs, "titulo"),
              MapGet(item.attrs, "autor"), MapGet(item.attrs, "ano_publicacao"),
              MapGet(item.attrs, "preco")>>

\* an id column only when every record has an id
has_any_id_all(normalized_rows) ==
    \A k \in 1..Len(normalized_rows) : normalized_rows[k][1] # None

\* any(r[0] is not None for r in normalized_rows)
has_any_id(normalized_rows) ==
    \E k \in 1..Len(normalized_rows) : normalized_rows[k][1] # None

ExportHeader(with_id) ==
    IF with_id THEN <<"id", "titulo", "autor", "ano_publicacao", "preco">>
    ELSE <<"titulo", "autor", "ano_publicacao", "preco">>

\* the fields handed to writer.writerow for the normalized record r
ExportRow(r, with_id) == IF with_id THEN r ELSE SubSeq(r, 2, 5)

\* csv.writer, dialect excel: the text of one cell (None is written empty,
\* anything but a string through str()), quoted when it holds the delimiter,
\* the quote character or a line break, quotes doubled
CellText(v) == IF v = None THEN "" ELSE PyStrOf(v)
NeedsQuotes(s) == \E c \in {",", "\"", "\r", "\n"} : Contains(s, c)
WriteCell(s) ==
    IF NeedsQuotes(s) THEN "\"" \o ReplaceCh(s, "\"", "\"\"") \o "\"" ELSE s

\* writer.writerow(fields): a lone empty cell is written as a pair of quotes
WriteRow(cells) ==
    IF cells = <<"">> THEN "\"\"\r\n"
    ELSE Join([k \in 1..Len(cells) |-> WriteCell(cells[k])], ",") \o "\r\n"

\* the text export_to_csv writes for books
export_to_csv(books) ==
    LET normalized_rows == [k \in 1..Len(books) |-> FM_normalize_row(books[k])]
        with_id == has_any_id(normalized_rows)
        line(k) == LET fields == ExportRow(normalized_rows[k], with_id)
                   IN  WriteRow([j \in 1..Len(fields) |-> CellText(fields[j])])
    IN  WriteRow(ExportHeader(with_id))
        \o Join([k \in 1..Len(books) |-> line(k)], "")

\* FileManager.export_to_csv(books, outfile_name)
Export(books, outfile_name) ==
    /\ pc = "idle"
    /\ Len(hist) < MaxCalls
    /\ LET path == ExportPath(outfile_name)
       IN  /\ fs' = [fs EXCEPT ![path] = File(export_to_csv(books))]
           /\ ret' = PStr(path)
           /\ hist' = Append(hist, Finished("export_to_csv", path, books, store,
                                            PStr(path), <<>>, Len(books)))
    /\ UNCHANGED <<store, nextId, pc, imp, calls, val>>


(***************************************************************************)
(* lib/utils.py and main.py: LivrariaCLI                                   *)
(***************************************************************************)
\* what a handler did, in order: a line printed, or a call of a collaborator
\* with its arguments and its answer. The characters beyond U+00FF that some
\* messages start with (the check mark, the warning sign, the dash and the
\* bullet) are left out of the text of the lines.
Event(ev, arg, res) == [ev |-> ev, arg |-> arg, res |-> res]
Printed(msg) == Event("print", msg, None)
\* self.file_manager.backup_db(); the backup directory is not followed here
Backup == Event("backup_db", None, None)

\* what a handler leaves: the events, the table, and the exception that left it
Done(events, table, counter) ==
    [events |-> events, store |-> table, nextId |-> counter, raised |-> None]
Crashed(events, table, counter, e) ==
    [events |-> events, store |-> table, nextId |-> counter, raised |-> e]

\* the lines typed at one prompt are those the loop turns down followed by
\* the one it takes: the position of the first line it takes
FirstTaken(typed, Takes(_)) == MinOf({i \in 1..Len(typed) : Takes(typed[i])})

\* input_nonempty(prompt): the stripped line, and the lines printed before it
input_nonempty(typed) ==
    LET Read(i) ==
            [value |-> Strip(typed[i]),
             prints |-> [k \in 1..(i - 1) |-> Printed("Este campo não pode ficar vazio.")]]
    IN  Read(FirstTaken(typed, LAMBDA line : Strip(line) # ""))

\* the digits of s from its first non-zero digit on
Significant(digits) ==
    LET nonzero == {i \in 1..Len(digits) : Ch(digits, i) # "0"}
    IN  IF nonzero = {} THEN "0" ELSE SubSeq(digits, MinOf(nonzero), Len(digits))
\* a > b for two digit strings of the same length
DigitsAbove(a, b) ==
    \E i \in 1..Len(a) :
        /\ DigitVal(Ch(a, i)) > DigitVal(Ch(b, i))
        /\ \A j \in 1..(i - 1) : Ch(a, j) = Ch(b, j)
\* the integer written is below -2^63 or above 2^63 - 1
OutsideInt64(neg, digits) ==
    LET Wide(d) ==
            \/ Len(d) > 19
            \/ Len(d) = 19 /\ DigitsAbove(d, IF neg THEN "9223372036854775808"
                                             ELSE "9223372036854775807")
    IN  Wide(Significant(StripUnderscores(digits)))
\* int(val) for a line int() accepts
IntOf(s) ==
    LET Of(t, neg) ==
            IF OutsideInt64(neg, Unsigned(t)) THEN PWide(neg) ELSE PInt(ParseInt(t).v)
        Signed(t) == Of(t, HasSign(t) /\ Head(t) = "-")
    IN  Signed(Strip(s))

\* input_int(prompt)
input_int(typed) ==
    LET Read(i) ==
            [value |-> IntOf(typed[i]),
             prints |-> [k \in 1..(i - 1) |->
                           Printed("Valor inválido. Digite um número inteiro.")]]
    IN  Read(FirstTaken(typed, LAMBDA line : ParseInt(line).ok))

\* str(preco_raw).replace(",", ".").strip()
PriceAnswer(raw) == PStr(Strip(ReplaceCh(raw, ",", ".")))

\* LivrariaCLI.adicionar_livro, the four answers typed
adicionar_livro(table, counter, typed) ==
    LET Stored(said, titulo, autor, ano, preco, added) ==
            Done(said \o <<Backup,
                           Event("add_book", <<titulo, autor, ano, preco>>,
                                 PInt(added.rowcount)),
                           Printed(IF added.rowcount # 0
                                   THEN "Livro adicionado com sucesso!"
                                   ELSE "Livro possivelmente duplicado "
                                        \o "(mesmo título, autor e ano). Não inserido.")>>,
                 added.store, added.nextId)
        Invalid(said, e) ==
            Done(Append(said, Printed("Dados inválidos: " \o e.msg)), table, counter)
        Price(said, titulo, autor, ano, preco) ==
            IF ~preco.ok THEN Invalid(said, preco)
            ELSE Stored(said, titulo.v, autor.v, ano.v, preco.v,
                        add_book(table, counter, titulo.v, autor.v, ano.v, preco.v))
        Year(said, titulo, autor, ano, preco_raw) ==
            IF ~ano.ok THEN Invalid(said, ano)
            ELSE Price(said, titulo, autor, ano,
                       validate_price("Preço", PriceAnswer(preco_raw),
                                      DefaultMinPrice, DefaultMaxPrice))
        Author(said, titulo, autor, ano_raw, preco_raw) ==
            IF ~autor.ok THEN Invalid(said, autor)
            ELSE Year(said, titulo, autor,
                      validate_year("Ano de publicação", PStr(ano_raw),
                                    DefaultMinYear, CurrentYear),
                      preco_raw)
        Title(said, titulo, autor_raw, ano_raw, preco_raw) ==
            IF ~titulo.ok THEN Invalid(said, titulo)
            ELSE Author(said, titulo,
                        validate_text("Autor", PStr(autor_raw), DefaultMinLen, DefaultMaxLen),
                        ano_raw, preco_raw)
        Asked(t, a, y, p) ==
            Title(<<Printed("\n=== Adicionar novo livro ===")>>
                  \o t.prints \o a.prints \o y.prints \o p.prints,
                  validate_text("Título", PStr(t.value), DefaultMinLen, DefaultMaxLen),
                  a.value, y.value, p.value)
    IN  Asked(input_nonempty(typed[1]), input_nonempty(typed[2]),
              input_nonempty(typed[3]), input_nonempty(typed[4]))

\* LivrariaCLI.atualizar_preco, the id and the price typed
atualizar_preco(table, counter, typed) ==
    LET Updated(said, livro_id, novo_preco, done) ==
            IF ~done.ok
            THEN Done(said \o <<Backup,
                                Event("update_price", <<livro_id, novo_preco>>, done),
                                Printed("Erro ao atualizar: " \o done.msg)>>,
                      table, counter)
            ELSE Done(said \o <<Backup,
                                Event("update_price", <<livro_id, novo_preco>>,
                                      PInt(done.v.rowcount)),
                                Printed(IF done.v.rowcount = 0 THEN "ID não encontrado."
                                        ELSE "Preço atualizado com sucesso!")>>,
                      done.v.store, counter)
        Price(said, livro_id, novo_preco) ==
            IF ~novo_preco.ok
            THEN Done(Append(said, Printed("Valor inválido: " \o novo_preco.msg)),
                      table, counter)
            ELSE Updated(said, livro_id, novo_preco.v,
                         update_price(table, livro_id, novo_preco.v))
        Asked(i, p) ==
            Price(<<Printed("\n=== Atualizar preço de um livro ===")>> \o i.prints \o p.prints,
                  i.value,
                  validate_price("Preço", PriceAnswer(p.value),
                                 DefaultMinPrice, DefaultMaxPrice))
    IN  Asked(input_int(typed[1]), input_nonempty(typed[2]))

\* remover_livro with the removal made before the backup is taken
remover_livro_unsaved(table, counter, typed) ==
    LET Removed(said, livro_id, done) ==
            IF ~done.ok
            THEN Crashed(said \o <<Event("remove_book", <<livro_id>>, done)>>,
                         table, counter, done)
            ELSE Done(said \o <<Event("remove_book", <<livro_id>>, PInt(done.v.rowcount)),
                                Backup,
                                Printed(IF done.v.rowcount = 0 THEN "ID não encontrado."
                                        ELSE "Livro removido com sucesso!")>>,
                      done.v.store, counter)
        Asked(i) ==
            Removed(<<Printed("\n=== Remover um livro ===")>> \o i.prints, i.value,
                    remove_book(table, i.value))
    IN  Asked(input_int(typed[1]))

\* LivrariaCLI.remover_livro, the id typed: an exception of remove_book
\* leaves the handler
remover_livro(table, counter, typed) ==
    LET Removed(said, livro_id, done) ==
            IF ~done.ok
            THEN Crashed(said \o <<Backup, Event("remove_book", <<livro_id>>, done)>>,
                         table, counter, done)
            ELSE Done(said \o <<Backup,
                                Event("remove_book", <<livro_id>>, PInt(done.v.rowcount)),
                                Printed(IF done.v.rowcount = 0 THEN "ID não encontrado."
                                        ELSE "Livro removido com sucesso!")>>,
                      done.v.store, counter)
        Asked(i) ==
            Removed(<<Printed("\n=== Remover um livro ===")>> \o i.prints, i.value,
                    remove_book(table, i.value))
    IN  Asked(input_int(typed[1]))

\* FileManager.get_csv_data(csv_path)
get_csv_data(csv_path) ==
    IF ~Exists(Resolve(csv_path)) THEN Raise("FileNotFoundError", "Arquivo não encontrado.")
    ELSE Ok(OpenReader(fs[Resolve(csv_path)].text).rows)

\* row.get(key, default)
GetOr(row, key, default) == IF key \in DOMAIN row THEN row[key] ELSE default

\* the try block of importar_csv up to the call of add_book
CliRowValues(row) ==
    LET Price(titulo, autor, ano, preco) ==
            IF ~preco.ok THEN preco
            ELSE Ok([titulo |-> titulo.v, autor |-> autor.v, ano |-> ano.v,
                     preco |-> preco.v])
        Year(titulo, autor, ano) ==
            IF ~ano.ok THEN ano
            ELSE Price(titulo, autor, ano,
                       validate_price("Preço",
                                      PyOr(MapGet(row, "preco"), GetOr(row, "price", PStr(""))),
                                      DefaultMinPrice, DefaultMaxPrice))
        Author(titulo, autor) ==
            IF ~autor.ok THEN autor
            ELSE Year(titulo, autor,
                      validate_year("Ano de publicação",
                                    PyOr(PyOr(MapGet(row, "ano_publicacao"), MapGet(row, "ano")),
                                         GetOr(row, "year", PStr(""))),
                                    DefaultMinYear, CurrentYear))
        Title(titulo) ==
            IF ~titulo.ok THEN titulo
            ELSE Author(titulo,
                        validate_text("Autor",
                                      PyOr(MapGet(row, "autor"), GetOr(row, "author", PStr(""))),
                                      DefaultMinLen, DefaultMaxLen))
    IN  Title(validate_text("Título",
                            PyOr(MapGet(row, "titulo"), GetOr(row, "title", PStr(""))),
                            DefaultMinLen, DefaultMaxLen))

\* the locals of importar_csv after the row numbered i
AfterCliRow(l, i, values) ==
    LET Added(v, added) ==
            [l EXCEPT !.store = added.store, !.nextId = added.nextId,
                      !.inseridos = @ + 1,
                      !.events = Append(@, Event("add_book",
                                                 <<v.titulo, v.autor, v.ano, v.preco>>,
                                                 PInt(added.rowcount)))]
    IN  IF values.ok
        THEN Added(values.v, add_book(l.store, l.nextId, values.v.titulo, values.v.autor,
                                      values.v.ano, values.v.preco))
        ELSE [l EXCEPT !.ignorados = @ + 1,
                       !.erros = Append(@, "Linha " \o IntToStr(i) \o ": " \o values.msg)]

\* for i, row in enumerate(csv_data, start=1)
RECURSIVE CliRows(_, _, _)
CliRows(csv_data, k, l) ==
    IF k > Len(csv_data) THEN l
    ELSE CliRows(csv_data, k + 1, AfterCliRow(l, k, CliRowValues(csv_data[k])))

\* the summary importar_csv prints
Summary(l) ==
    <<Printed("Importação concluída. Inseridos: " \o IntToStr(l.inseridos)
              \o " | Ignorados: " \o IntToStr(l.ignorados))>>
    \o (IF l.erros = <<>> THEN <<>>
        ELSE <<Printed("Erros encontrados:")>>
             \o [k \in 1..(IF Len(l.erros) < 10 THEN Len(l.erros) ELSE 10) |->
                   Printed("   " \o l.erros[k])]
             \o (IF Len(l.erros) > 10
                 THEN <<Printed("   (+" \o IntToStr(Len(l.erros) - 10) \o " outros)")>>
                 ELSE <<>>))

\* LivrariaCLI.importar_csv, the path typed
importar_csv(table, counter, typed) ==
    LET Looped(l) == Done(l.events \o Summary(l), l.store, l.nextId)
        Read(said, csv_data) ==
            IF ~csv_data.ok
            THEN Done(Append(said, Printed("Arquivo não encontrado.")), table, counter)
            ELSE Looped(CliRows(csv_data.v, 1,
                                [store |-> table, nextId |-> counter, inseridos |-> 0,
                                 ignorados |-> 0, erros |-> <<>>,
                                 events |-> Append(said, Backup)]))
        Asked(c) ==
            Read(<<Printed("\n=== Importar dados a partir de CSV ===")>> \o c.prints,
                 get_csv_data(c.value))
    IN  Asked(input_nonempty(typed[1]))

\* f"{s:<n}": s padded with blanks on the right to n characters
RECURSIVE Blanks(_)
Blanks(n) == IF n <= 0 THEN "" ELSE " " \o Blanks(n - 1)
PadRight(s, n) == s \o Blanks(n - Len(s))

\* f"{preco:>.2f}" of a stored price
Price2f(preco) == IF preco.k = "fin" /\ ~preco.rest THEN Format2f(preco.m) ELSE FloatRepr(preco)

\* the lines exibir_livros and buscar_por_autor print for the rows found
BookLines(rows) ==
    <<Printed("ID   TÍTULO                         AUTOR                  ANO    PREÇO")>>
    \o [k \in 1..Len(rows) |->
          Printed(PadRight(IntToStr(rows[k].id), 4) \o " " \o PadRight(rows[k].titulo, 30)
                  \o " " \o PadRight(rows[k].autor, 22) \o " "
                  \o PadRight(IntToStr(rows[k].ano_publicacao), 6) \o " R$   "
                  \o Price2f(rows[k].preco))]

\* LivrariaCLI.exibir_livros
exibir_livros(table, counter) ==
    Done(<<Printed("\n=== Todos os livros ===")>>
         \o (IF table = <<>> THEN <<Printed("(vazio)")>> ELSE BookLines(table)),
         table, counter)

\* text LIKE pattern as sqlite matches it: % for any run, _ for one character,
\* the ASCII letters without case
RECURSIVE Like(_, _)
Like(pattern, text) ==
    IF pattern = "" THEN text = ""
    ELSE IF Head(pattern) = "%"
    THEN \E k \in 0..Len(text) : Like(Tail(pattern), SubSeq(text, k + 1, Len(text)))
    ELSE /\ text # ""
         /\ \/ Head(pattern) = "_"
            \/ Head(pattern) = Head(text)
            \/ /\ Contains(UpperAscii \o LowerAscii, Head(pattern))
               /\ LowerCh(Head(pattern)) = LowerCh(Head(text))
         /\ Like(Tail(pattern), Tail(text))

\* DBManager.find_books_by_author(termo)
find_books_by_author(table, termo) ==
    SelectSeq(table, LAMBDA b : Like("%" \o termo \o "%", b.autor))

\* LivrariaCLI.buscar_por_autor, the term typed
buscar_por_autor(table, counter, typed) ==
    LET Found(said, rows) ==
            Done(said \o (IF rows = <<>>
                          THEN <<Printed("Nenhum livro encontrado para esse autor.")>>
                          ELSE BookLines(rows)),
                 table, counter)
        Asked(t) ==
            Found(<<Printed("\n=== Buscar livros por autor ===")>> \o t.prints,
                  find_books_by_author(table, t.value))
    IN  Asked(input_nonempty(typed[1]))

\* LivrariaCLI.exportar_csv: the file is written by the caller of this operator
exportar_csv(table, counter) ==
    Done(<<Printed("\n=== Exportar dados para CSV ==="),
           Event("export_to_csv", get_all_books(table), PStr(ExportPath(DefaultOutfile))),
           Printed("Exportado para: " \o ExportPath(DefaultOutfile))>>,
         table, counter)

\* LivrariaCLI.fazer_backup_manual: the names printed carry the time of the
\* clock, which is not followed here
fazer_backup_manual(table, counter) ==
    Done(<<Backup, Printed("Backup criado: backup_livraria_*.db"),
           Printed("Backups recentes:"), Event("print_recent_backups", None, None)>>,
         table, counter)

\* what generate_html_report and generate_pdf_report answer: the path
\* written, or the exception raised (a file that cannot be written, no
\* xhtml2pdf, a failed conversion)
HtmlOutcomes ==
    {Ok(ExportsDir \o "/relatorio_livros.html"),
     Raise("PermissionError", "[Errno 13] Permission denied: 'relatorio_livros.html'")}
PdfOutcomes ==
    {Ok(ExportsDir \o "/relatorio_livros.pdf"),
     Raise("ImportError", "Para gerar PDFs, instale 'xhtml2pdf' (pip install xhtml2pdf)."),
     Raise("RuntimeError", "Ocorreu um erro ao gerar o PDF. Código do erro: 1")}

\* LivrariaCLI.gerar_relatorio_html
gerar_relatorio_html(table, counter, answer) ==
    Done(<<Event("generate_html_report", get_all_books(table), answer),
           Printed(IF answer.ok THEN "Relatório HTML gerado em: " \o answer.v
                   ELSE "Erro ao gerar HTML: " \o answer.msg)>>,
         table, counter)

\* LivrariaCLI.gerar_relatorio_pdf; the hint is printed without the
\* backquotes around its command
gerar_relatorio_pdf(table, counter, answer) ==
    Done(<<Event("generate_pdf_report", get_all_books(table), answer),
           Printed(IF answer.ok THEN "Relatório PDF gerado em: " \o answer.v
                   ELSE IF answer.exc = "ImportError"
                   THEN "Não foi possível gerar PDF: " \o answer.msg
                        \o "\nDica: instale com pip install xhtml2pdf."
                   ELSE "Erro ao gerar PDF: " \o answer.msg)>>,
         table, counter)

\* the lines menu prints before it reads the option
MenuLines ==
    <<"\n=== Sistema de Gerenciamento de Livraria ===", "1. Adicionar novo livro",
      "2. Exibir todos os livros", "3. Atualizar preço de um livro", "4. Remover um livro",
      "5. Buscar livros por autor", "6. Exportar dados para CSV", "7. Importar dados de CSV",
      "8. Fazer backup do banco de dados", "9. Gerar relatório HTML",
      "10. Gerar relatório PDF", "11. Sair">>

\* the dictionary actions of menu
MenuActions ==
    [k \in {"1", "2", "3", "4", "5", "6", "7", "8", "9", "10"} |->
        CASE k = "1" -> "adicionar_livro"
          [] k = "2" -> "exibir_livros"
          [] k = "3" -> "atualizar_preco"
          [] k = "4" -> "remover_livro"
          [] k = "5" -> "buscar_por_autor"
          [] k = "6" -> "exportar_csv"
          [] k = "7" -> "importar_csv"
          [] k = "8" -> "fazer_backup_manual"
          [] k = "9" -> "gerar_relatorio_html"
          [] k = "10" -> "gerar_relatorio_pdf"]

\* turns of the menu loop that a session follows
MaxTurns == 2

\* the option read is a key of actions, and names the handler fn
Dispatch(raw, fn) ==
    /\ pc = "menu"
    /\ Len(hist) < MaxTurns
    /\ Strip(raw) \in DOMAIN MenuActions
    /\ MenuActions[Strip(raw)] = fn

\* one turn of the loop of menu in which the handler fn ran and left done
Turn(raw, fn, done) ==
    /\ hist' = Append(hist, [input |-> raw, before |-> store,
                             events |-> [k \in 1..Len(MenuLines) |-> Printed(MenuLines[k])]
                                        \o <<Event("call", fn, None)>> \o done.events,
                             raised |-> done.raised])
    /\ store' = done.store
    /\ nextId' = done.nextId
    /\ pc' = IF done.raised = None THEN "menu" ELSE "crashed"

(***************************************************************************)
(* lib/file_manager.py: backup_db and clean_old_backups                    *)
(***************************************************************************)
\* self.max_backups
max_backups == 5

\* a directory entry: the name of a file and its st_mtime; a directory is
\* the sequence of its entries in the order glob yields them, which the
\* file system chooses
Entry(name, mtime) == [name |-> name, mtime |-> mtime]
\* the database file with its st_mtime
DbFile(mtime) == [t |-> "file", mtime |-> mtime]
NamesIn(dir) == {dir[k].name : k \in 1..Len(dir)}

\* datetime.now().strftime("%Y-%m-%d_%H%M%S"), the clock counting the
\* seconds of one minute
Timestamp(now) ==
    "2026-01-01_0000" \o (IF now < 10 THEN "0" ELSE "") \o NatToStr(now)
\* self.backup_dir / f"backup_livraria_{timestamp}.db", the name of the file
BackupFileName(now) == "backup_livraria_" \o Timestamp(now) \o ".db"

\* the pattern "backup_livraria_*.db"
MatchesBackupPattern(name) ==
    /\ Len(name) >= Len("backup_livraria_") + Len(".db")
    /\ SubSeq(name, 1, Len("backup_livraria_")) = "backup_livraria_"
    /\ SubSeq(name, Len(name) - Len(".db") + 1, Len(name)) = ".db"
\* self.backup_dir.glob("backup_livraria_*.db")
GlobBackups(dir) == SelectSeq(dir, LAMBDA e : MatchesBackupPattern(e.name))

\* an insertion that puts the older files first
InsertOldestFirst(sorted, e) ==
    LET before == Cardinality({k \in 1..Len(sorted) : sorted[k].mtime <= e.mtime})
    IN  SubSeq(sorted, 1, before) \o <<e>> \o SubSeq(sorted, before + 1, Len(sorted))

\* sorted(..., key=st_mtime, reverse=True) is stable: e, which came later in
\* the unsorted list, goes behind every file that is as new as it is or newer
InsertNewestFirst(sorted, e) ==
    LET before == Cardinality({k \in 1..Len(sorted) : sorted[k].mtime >= e.mtime})
    IN  SubSeq(sorted, 1, before) \o <<e>> \o SubSeq(sorted, before + 1, Len(sorted))
RECURSIVE SortedBackups(_)
SortedBackups(listed) ==
    IF listed = <<>> THEN <<>>
    ELSE InsertNewestFirst(SortedBackups(SubSeq(listed, 1, Len(listed) - 1)),
                           listed[Len(listed)])

\* backups[self.max_backups:]
OldBackups(dir) ==
    LET Behind(backups) == SubSeq(backups, max_backups + 1, Len(backups))
    IN  Behind(SortedBackups(GlobBackups(dir)))

\* FileManager.clean_old_backups: the files behind the first max_backups of
\* the sorted list are unlinked; unlink raises for the names in deny, and
\* each of these gets a warning
clean_old_backups(dir, deny) ==
    LET Cleaned(old) ==
            [dir     |-> SelectSeq(dir, LAMBDA e : \A k \in 1..Len(old) :
                                          old[k].name = e.name => e.name \in deny),
             removed |-> {old[k] : k \in {j \in 1..Len(old) : old[j].name \notin deny}},
             denied  |-> {old[k] : k \in {j \in 1..Len(old) : old[j].name \in deny}},
             prints  |-> [k \in 1..Len(SelectSeq(old, LAMBDA e : e.name \in deny)) |->
                            "[Aviso] Não foi possível remover backup '"
                            \o SelectSeq(old, LAMBDA e : e.name \in deny)[k].name
                            \o "': [Errno 13] Permission denied"]]
    IN  Cleaned(OldBackups(dir))

\* shutil.copy2(self.db_path, backup_file): the copy has the st_mtime of the
\* database file; a file of that name is written over where it is, a new
\* file gets the place at in the directory
copy2(dir, name, mtime, at) ==
    IF name \in NamesIn(dir)
    THEN [k \in 1..Len(dir) |-> IF dir[k].name = name THEN Entry(name, mtime) ELSE dir[k]]
    ELSE SubSeq(dir, 1, at) \o <<Entry(name, mtime)>> \o SubSeq(dir, at + 1, Len(dir))

\* FileManager.backup_db at the time of files.clock: the files afterwards,
\* the path returned, and what the cleanup did
backup_db(files, at, deny) ==
    LET Cleaned(db, copied, cleaned) ==
            [files   |-> [clock |-> files.clock, db |-> db, dir |-> cleaned.dir],
             ret     |-> BackupFileName(files.clock),
             copied  |-> copied,
             removed |-> cleaned.removed,
             denied  |-> cleaned.denied,
             prints  |-> cleaned.prints]
        Copied(db, copied) == Cleaned(db, copied, clean_old_backups(copied, deny))
        Opened(db) ==
            Copied(db, copy2(files.dir, BackupFileName(files.clock), db.mtime, at))
    IN  Opened(IF files.db = NoFile THEN DbFile(files.clock) ELSE files.db)

(***************************************************************************)
(* Sessions of backups: the backup directory found, the clock, the         *)
(* database file written to, and the backups taken                         *)
(***************************************************************************)
\* seconds the clock runs through
MaxClock == 3
\* files found in the backup directory that match the pattern, at most
\* MaxFound of them
MaxFound == 6
FoundName(k) == "backup_livraria_old" \o NatToStr(k) \o ".db"
\* st_mtime of the files found: older than, within and newer than the clock
FoundTimes == {0, 2, MaxClock + 1}
OtherNames == {"notes.txt", "backup_livraria_x.db.bak"}
\* the directories a session starts from: empty; n files of one age;
\* files of growing and of falling age; files that do not match the pattern
FoundDirs ==
    {<<>>}
    \cup {[k \in 1..n |-> Entry(FoundName(k), t)] :
             n \in {1, max_backups - 1, max_backups, MaxFound}, t \in FoundTimes}
    \cup {[k \in 1..n |-> Entry(FoundName(k), k)] : n \in {max_backups, MaxFound}}
    \cup {[k \in 1..n |-> Entry(FoundName(k), n - k)] : n \in {max_backups, MaxFound}}
    \cup {<<Entry(o, MaxClock + 1)>> \o [k \in 1..max_backups |-> Entry(FoundName(k), 2)] :
             o \in OtherNames}
\* the database file at the start: missing, or last written at some time
FoundDbs == {NoFile} \cup {DbFile(t) : t \in {0, 1, MaxClock + 1}}

InitBackup ==
    /\ fs \in {[clock |-> 0, db |-> db, dir |-> dir] : db \in FoundDbs, dir \in FoundDirs}
    /\ pc = "files" /\ val = None
    /\ store = <<>> /\ nextId = 1 /\ imp = NoImport /\ calls = <<>> /\ ret = None
    /\ hist = <<>>

\* what unlink may refuse in one cleanup: nothing, one of the files it is
\* called on, or all of them
DenyChoices(old) == {{}} \cup {{n} : n \in NamesIn(old)} \cup {NamesIn(old)}
\* the place of a new file in the order glob yields: first or last
PlaceChoices(dir) == {0, Len(dir)}
\* backups taken in one session
MaxBackupCalls == 2
BackupCalls == IF val = None THEN 0 ELSE val.calls

\* file_manager.backup_db()
BackupDb ==
    /\ pc = "files"
    /\ BackupCalls < MaxBackupCalls
    /\ \E at \in PlaceChoices(fs.dir) :
          LET Made(done) ==
                  /\ fs' = done.files
                  /\ val' = [fn |-> "backup_db", calls |-> BackupCalls + 1,
                             ret |-> done.ret, copied |-> done.copied,
                             removed |-> done.removed, denied |-> done.denied,
                             prints |-> done.prints]
              Tried(copied) ==
                  \E deny \in DenyChoices(OldBackups(copied)) :
                      Made(backup_db(fs, at, deny))
              Opened(db) ==
                  Tried(copy2(fs.dir, BackupFileName(fs.clock), db.mtime, at))
          IN  Opened(IF fs.db = NoFile THEN DbFile(fs.clock) ELSE fs.db)
    /\ UNCHANGED <<store, nextId, pc, imp, calls, ret, hist>>

\* a second passes
Tick ==
    /\ pc = "files"
    /\ fs.clock < MaxClock
    /\ fs' = [fs EXCEPT !.clock = fs.clock + 1]
    /\ UNCHANGED <<store, nextId, pc, imp, calls, ret, hist, val>>

\* the store commits a change: the database file is written now
WriteDb ==
    /\ pc = "files"
    /\ fs.db # DbFile(fs.clock)
    /\ fs' = [fs EXCEPT !.db = DbFile(fs.clock)]
    /\ UNCHANGED <<store, nextId, pc, imp, calls, ret, hist, val>>

NextBackup == BackupDb \/ Tick \/ WriteDb
SpecBackup == InitBackup /\ [][NextBackup]_vars

(***************************************************************************)
(* Sessions: the files on disk at the start and the calls made             *)
(***************************************************************************)
InPath == "in.csv"
Paths == {Resolve(InPath), ExportPath(DefaultOutfile)}

\* all sequences over S with at most n elements
RECURSIVE SeqsUpTo(_, _)
SeqsUpTo(S, n) ==
    IF n = 0 THEN {<<>>}
    ELSE LET shorter == SeqsUpTo(S, n - 1)
         IN  shorter \cup {Append(q, x) : q \in shorter, x \in S}

\* the text of a file of the given lines, each ended by eol
FileOf(lines, eol) == Join([k \in 1..Len(lines) |-> lines[k] \o eol], "")

\* data lines: two valid rows, a row repeating the first one's key, an
\* unparsable year, an empty title, a quoted decimal comma, a row cut short,
\* a blank line, values to be trimmed, a negative price
CanonicalHeader == "titulo,autor,ano_publicacao,preco"
RowPool ==
    {"Ab,Cd,1999,29.9", "Ef,Gh,2000,10", "Ab,Cd,1999,5.00", "Ij,Kl,abc,1.5",
     ",Mn,2001,2.5", "Op,Qr,2002,\"3,50\"", "St,Uv,2003", "", " Wx ,Yz, 2004 ,1 0.5",
     "Ab,Cd,1999,-1"}
MaxRows == 2
RowFiles == {FileOf(<<CanonicalHeader>> \o rows, "\n") : rows \in SeqsUpTo(RowPool, MaxRows)}

\* headers: each column absent ("") or present under one of its names, with
\* one data row aligned to the columns present
HeaderChoices ==
    {<<"", "">>, <<"id", "7">>} \X
    {<<"", "">>, <<"titulo", "Ab">>, <<"Title", "Ab">>, <<" TITLE ", "Ab">>,
     <<"title,titulo", "Ab,Ef">>} \X
    {<<"", "">>, <<"autor", "Cd">>, <<"author", "Cd">>} \X
    {<<"", "">>, <<"ano_publicacao", "1999">>, <<"ano", "1999">>, <<"Year", "1999">>} \X
    {<<"", "">>, <<"preco", "29.9">>, <<"price", "29.9">>}
Present(choice, k) == SelectSeq([j \in 1..Len(choice) |-> choice[j][k]], LAMBDA x : x # "")
HeaderFiles ==
    {FileOf(<<Join(Present(c, 1), ","), Join(Present(c, 2), ",")>>, "\n") : c \in HeaderChoices}

\* other shapes: an empty file, a header alone, semicolons, tabs, "\r\n"
OtherFiles ==
    {"", CanonicalHeader, CanonicalHeader \o "\n",
     "titulo;autor;ano;preco\nAb;Cd;1999;29,9\nEf;Gh;2000;10\n",
     "title\tauthor\tyear\tprice\nAb\tCd\t1999\t29.9\n",
     FileOf(<<CanonicalHeader, "Ab,Cd,1999,29.9", "Ij,Kl,abc,1.5", "Ef,Gh,2000,10">>, "\r\n")}

InputFiles == {File(t) : t \in RowFiles \cup HeaderFiles \cup OtherFiles} \cup {NoFile}

InitWith(inputs) ==
    /\ fs \in {[p \in Paths |-> IF p = Resolve(InPath) THEN t ELSE NoFile] : t \in inputs}
    /\ store = <<>>
    /\ nextId = 1
    /\ pc = "idle"
    /\ imp = NoImport
    /\ calls = <<>>
    /\ ret = None
    /\ hist = <<>>
    /\ val = None

\* sessions that only import
InitImport == InitWith(InputFiles)
NextImport ==
    \/ ImportStart(InPath)
    \/ ImportRow
    \/ ImportReturn
SpecImport == InitImport /\ [][NextImport]_vars


\* records handed to export_to_csv: canonical 4-tuples (a whole-number price,
\* a comma in the title, a carriage return in the title, quotes), 5-tuples
\* with an id and with a null id, mappings and an object
Tuple4(titulo, autor, ano, preco) == PSeq(<<PStr(titulo), PStr(autor), PInt(ano), preco>>)
BookPool ==
    {Tuple4("Ab", "Cd", 1999, PFloat(10000)),
     Tuple4("Ef, Gh", "Ij", 2000, PFloat(29900)),
     Tuple4("Kl\rMn", "Op", 2001, PFloat(5250)),
     Tuple4("Qr", "'St", 1400, PFloat(0)),
     Tuple4("Uv'", "Wx", 2027, PFloat(1990)),
     PSeq(<<PInt(7), PStr("Yz"), PStr("Cd"), PInt(1999), PFloat(45000)>>),
     PSeq(<<None, PStr("Ab"), PStr("Ij"), PInt(1999), PFloat(120)>>),
     PMap([id |-> PInt(0), titulo |-> PStr("Ma"), autor |-> PStr("Pa"),
           ano_publicacao |-> PInt(2010), preco |-> PFloat(9990)]),
     PMap([title |-> PStr("Mb"), author |-> PStr("Pb"), year |-> PInt(2011),
           price |-> PFloat(500)]),
     PObj([titulo |-> PStr("Oa"), autor |-> PStr("Ob"), ano_publicacao |-> PInt(2012),
           preco |-> PFloat(1000)])}
MaxBooks == 2
ExportPool == SeqsUpTo(BookPool, MaxBooks)

\* sessions that export and import: the input file holds two valid rows, a
\* valid and an invalid row, no required column, or does not exist
SessionFiles ==
    {File(FileOf(<<CanonicalHeader, "Ab,Cd,1999,29.9", "Ef,Gh,2000,10">>, "\n")),
     File(FileOf(<<CanonicalHeader, "Ij,Kl,abc,1.5", "Ab,Cd,1999,29.9">>, "\n")),
     File(FileOf(<<"nome,valor", "Ab,1">>, "\n")),
     NoFile}

Init == InitWith(SessionFiles)
Next ==
    \/ \E path \in {InPath, ExportPath(DefaultOutfile)} : ImportStart(path)
    \/ ImportRow
    \/ ImportReturn
    \/ \E books \in ExportPool \cup {get_all_books(store)} : Export(books, DefaultOutfile)
Spec == Init /\ [][Next]_vars

\* sessions that import the same data rows under two headers: in.csv under
\* a header naming each column by one of its accepted names, in either case,
\* or naming a column twice, and the exported file under the canonical header
AliasRowPool == {"Ab,Cd,1999,29.9", "Ij,Kl,abc,1.5", "Op,Qr,2002,\"3,50\""}
AliasHeaders ==
    {Join(<<t, a, y, p>>, ",") : t \in {"titulo", "Title"}, a \in {"autor", "Author"},
                                y \in {"ano_publicacao", "ano", "Year"}, p \in {"preco", "Price"}}
    \cup {"title,autor,year,preco,titulo,ano", "Title,Author,Year,Price,Ano_Publicacao"}
InitAlias ==
    /\ fs \in {[p \in Paths |-> IF p = Resolve(InPath)
                                THEN File(FileOf(<<h>> \o rows, "\n"))
                                ELSE File(FileOf(<<CanonicalHeader>> \o rows, "\n"))] :
                 h \in AliasHeaders, rows \in SeqsUpTo(AliasRowPool, MaxRows)}
    /\ store = <<>>
    /\ nextId = 1
    /\ pc = "idle"
    /\ imp = NoImport
    /\ calls = <<>>
    /\ ret = None
    /\ hist = <<>>
    /\ val = None
NextAlias ==
    \/ \E path \in {InPath, ExportPath(DefaultOutfile)} : ImportStart(path)
    \/ ImportRow
    \/ ImportReturn
SpecAlias == InitAlias /\ [][NextAlias]_vars

\* sessions that import while the database may refuse a write
StorageRowPool == {"Ab,Cd,1999,29.9", "Ef,Gh,2000,10", "Ij,Kl,abc,1.5"}
InitStorage ==
    InitWith({File(FileOf(<<CanonicalHeader>> \o rows, "\n")) :
                 rows \in SeqsUpTo(StorageRowPool, MaxRows)})
NextStorage ==
    \/ ImportStart(InPath)
    \/ ImportRow
    \/ ImportRowStorageError
    \/ ImportReturn
SpecStorage == InitStorage /\ [][NextStorage]_vars

\* sessions that import, while the database may refuse a write, rows in
\* which one or several validators fail: a
\* valid row; a price of three decimals; the text nan; cells to be trimmed;
\* a year at and beyond each bound; a price beyond the maximum; rows in which
\* the title, the author, the year or the price is the first to fail
ValidatedRowPool ==
    {"Ab,Cd,1999,29.9", "Ef,Gh,2027,29.999", "Ab,Cd,1999,nan", " Wx ,Yz, 1400 ,1 0.5",
     "Ab,Cd,1399,1", "Ab,Cd,2028,1", "Ab,Cd,1999,1000000.01",
     ",,abc,-1", "Ab,!,abc,x", "Ab,Cd,abc,x", "Ab,Cd,1999,x"}
InitValidated ==
    InitWith({File(FileOf(<<CanonicalHeader>> \o rows, "\n")) :
                 rows \in SeqsUpTo(ValidatedRowPool, MaxRows)})
NextValidated ==
    \/ ImportStart(InPath)
    \/ ImportRow
    \/ ImportRowStorageError
    \/ ImportReturn
SpecValidated == InitValidated /\ [][NextValidated]_vars

\* sessions in which the same file is imported through the menu and through
\* import_from_csv, each into its own copy of the empty database: the
\* canonical header, synonyms in lower case and capitalised, a header that
\* lacks columns; a valid row, a bad year, a quoted decimal comma, a price
\* with a blank
BothHeaders ==
    {CanonicalHeader, "titulo,autor,ano,preco", "title,author,year,price",
     "Title,Author,Year,Price", "nome,valor"}
BothRowPool ==
    {"Ab,Cd,1999,29.9", "Ij,Kl,abc,1.5", "Op,Qr,2002,\"3,50\"", "Ef,Gh,2000,1 0.5"}
InitBoth ==
    InitWith({File(FileOf(<<h>> \o rows, "\n")) :
                 h \in BothHeaders, rows \in SeqsUpTo(BothRowPool, MaxRows)})

\* LivrariaCLI.importar_csv on the file, before import_from_csv is called;
\* its database is the copy val.done.store
CliImportarCsv ==
    /\ pc = "idle" /\ hist = <<>> /\ val = None
    /\ val' = [fn |-> "importar_csv", path |-> InPath, before |-> store,
               done |-> importar_csv(store, nextId, <<<<InPath>>>>)]
    /\ UNCHANGED <<fs, store, nextId, pc, imp, calls, ret, hist>>

NextBoth ==
    \/ CliImportarCsv
    \/ ImportStart(InPath)
    \/ ImportRow
    \/ ImportReturn
SpecBoth == InitBoth /\ [][NextBoth]_vars

(***************************************************************************)
(* Sessions of the menu                                                    *)
(***************************************************************************)
\* the lines typed at the prompt of the menu and at the prompts of the
\* handlers: per prompt, the lines turned down and the line taken
MenuInputs ==
    {"1", " 1 ", "2", "3", "4", "5", "6", "7", "8", "9", "10", "11", " 11\t", "0", "12", "",
     "x", "1 1", "01", "sair"}
AddAnswers ==
    {<<<<"Ab">>, <<"Cd">>, <<"1999">>, <<"29,90">>>>,
     <<<<"", " Ef ">>, <<"Cd">>, <<"2000">>, <<"10">>>>,
     <<<<"Ab">>, <<"Cd">>, <<"1999">>, <<"nan">>>>,
     <<<<"!">>, <<"Cd">>, <<"1999">>, <<"10">>>>,
     <<<<"Ab">>, <<"Cd">>, <<"199x">>, <<"10">>>>,
     <<<<"Ab">>, <<"Cd">>, <<"1999">>, <<"-1">>>>}
IdAnswers == {<<"1">>, <<"x", "", " 2 ">>, <<"99">>, <<"-0">>, <<"99999999999999999999">>}
PriceAnswers == {<<"35,5">>, <<"nan">>, <<"abc">>}
PathAnswers == {<<InPath>>, <<"", "nada.csv">>, <<ExportPath(DefaultOutfile)>>}
TermAnswers == {<<"cd">>, <<"%">>, <<"zz">>}
MenuFiles ==
    {File(FileOf(<<CanonicalHeader, "Ab,Cd,1999,29.9", "Ij,Kl,abc,1.5">>, "\n")),
     File(FileOf(<<"Title,Author,Year,Price", "Ef,Gh,2000,nan", "Ef,Gh,2000,10">>, "\n")),
     File(FileOf(<<CanonicalHeader>>, "\n")),
     File(FileOf(<<"nome,valor", "Ab,1">>, "\n"))}

InitMenu ==
    /\ fs \in {[p \in Paths |-> IF p = Resolve(InPath) THEN t ELSE NoFile] : t \in MenuFiles}
    /\ store = <<>>
    /\ nextId = 1
    /\ pc = "menu"
    /\ imp = NoImport
    /\ calls = <<>>
    /\ ret = None
    /\ hist = <<>>
    /\ val = None

MenuAdicionarLivro ==
    /\ \E raw \in MenuInputs, typed \in AddAnswers :
          /\ Dispatch(raw, "adicionar_livro")
          /\ Turn(raw, "adicionar_livro", adicionar_livro(store, nextId, typed))
    /\ UNCHANGED <<fs, imp, calls, ret, val>>

MenuExibirLivros ==
    /\ \E raw \in MenuInputs :
          /\ Dispatch(raw, "exibir_livros")
          /\ Turn(raw, "exibir_livros", exibir_livros(store, nextId))
    /\ UNCHANGED <<fs, imp, calls, ret, val>>

MenuAtualizarPreco ==
    /\ \E raw \in MenuInputs, id \in IdAnswers, preco \in PriceAnswers :
          /\ Dispatch(raw, "atualizar_preco")
          /\ Turn(raw, "atualizar_preco", atualizar_preco(store, nextId, <<id, preco>>))
    /\ UNCHANGED <<fs, imp, calls, ret, val>>

MenuRemoverLivro ==
    /\ \E raw \in MenuInputs, id \in IdAnswers :
          /\ Dispatch(raw, "remover_livro")
          /\ Turn(raw, "remover_livro", remover_livro(store, nextId, <<id>>))
    /\ UNCHANGED <<fs, imp, calls, ret, val>>

MenuBuscarPorAutor ==
    /\ \E raw \in MenuInputs, termo \in TermAnswers :
          /\ Dispatch(raw, "buscar_por_autor")
          /\ Turn(raw, "buscar_por_autor", buscar_por_autor(store, nextId, <<termo>>))
    /\ UNCHANGED <<fs, imp, calls, ret, val>>

MenuExportarCsv ==
    /\ \E raw \in MenuInputs :
          /\ Dispatch(raw, "exportar_csv")
          /\ Turn(raw, "exportar_csv", exportar_csv(store, nextId))
    /\ fs' = [fs EXCEPT ![ExportPath(DefaultOutfile)] =
                            File(export_to_csv(get_all_books(store)))]
    /\ UNCHANGED <<imp, calls, ret, val>>

MenuImportarCsv ==
    /\ \E raw \in MenuInputs, caminho \in PathAnswers :
          /\ Dispatch(raw, "importar_csv")
          /\ Turn(raw, "importar_csv", importar_csv(store, nextId, <<caminho>>))
    /\ UNCHANGED <<fs, imp, calls, ret, val>>

MenuFazerBackupManual ==
    /\ \E raw \in MenuInputs :
          /\ Dispatch(raw, "fazer_backup_manual")
          /\ Turn(raw, "fazer_backup_manual", fazer_backup_manual(store, nextId))
    /\ UNCHANGED <<fs, imp, calls, ret, val>>

MenuGerarRelatorioHtml ==
    /\ \E raw \in MenuInputs, answer \in HtmlOutcomes :
          /\ Dispatch(raw, "gerar_relatorio_html")
          /\ Turn(raw, "gerar_relatorio_html", gerar_relatorio_html(store, nextId, answer))
    /\ UNCHANGED <<fs, imp, calls, ret, val>>

MenuGerarRelatorioPdf ==
    /\ \E raw \in MenuInputs, answer \in PdfOutcomes :
          /\ Dispatch(raw, "gerar_relatorio_pdf")
          /\ Turn(raw, "gerar_relatorio_pdf", gerar_relatorio_pdf(store, nextId, answer))
    /\ UNCHANGED <<fs, imp, calls, ret, val>>

\* elif opcao == "11": the loop ends
MenuSair ==
    /\ pc = "menu"
    /\ Len(hist) < MaxTurns
    /\ \E raw \in MenuInputs :
          /\ Strip(raw) \notin DOMAIN MenuActions
          /\ Strip(raw) = "11"
          /\ hist' = Append(hist, [input |-> raw, before |-> store,
                                   events |-> [k \in 1..Len(MenuLines) |-> Printed(MenuLines[k])]
                                              \o <<Printed("Até mais!")>>,
                                   raised |-> None])
    /\ pc' = "exit"
    /\ UNCHANGED <<fs, store, nextId, imp, calls, ret, val>>

\* else: the option is turned down
MenuInvalid ==
    /\ pc = "menu"
    /\ Len(hist) < MaxTurns
    /\ \E raw \in MenuInputs :
          /\ Strip(raw) \notin DOMAIN MenuActions
          /\ Strip(raw) # "11"
          /\ hist' = Append(hist, [input |-> raw, before |-> store,
                                   events |-> [k \in 1..Len(MenuLines) |-> Printed(MenuLines[k])]
                                              \o <<Printed("Opção inválida. Tente novamente.")>>,
                                   raised |-> None])
    /\ UNCHANGED <<fs, store, nextId, pc, imp, calls, ret, val>>

NextMenu ==
    \/ MenuAdicionarLivro
    \/ MenuExibirLivros
    \/ MenuAtualizarPreco
    \/ MenuRemoverLivro
    \/ MenuBuscarPorAutor
    \/ MenuExportarCsv
    \/ MenuImportarCsv
    \/ MenuFazerBackupManual
    \/ MenuGerarRelatorioHtml
    \/ MenuGerarRelatorioPdf
    \/ MenuSair
    \/ MenuInvalid
SpecMenu == InitMenu /\ [][NextMenu]_vars

(***************************************************************************)
(* DBManager called on its own                                             *)
(***************************************************************************)
\* inserts tried in a session of the store
MaxInserts == 3
StoreTitles == {"Ab", "Ef"}
StoreYears == {1999, 2000}
StorePrices == {PFloat(10000), PFloat(29900), PNaN}
StoreIds == {PInt(n) : n \in {-1, 0, 1, 2, 3, IntCap}} \cup {PWide(FALSE), PWide(TRUE)}

InitStore ==
    /\ store = <<>> /\ nextId = 1 /\ pc = "db" /\ val = None
    /\ fs = <<>> /\ imp = NoImport /\ calls = <<>> /\ ret = None /\ hist = <<>>

\* db.add_book(titulo, autor, ano, preco)
AddBook ==
    /\ pc = "db" /\ nextId <= MaxInserts
    /\ \E titulo \in StoreTitles, ano \in StoreYears, preco \in StorePrices :
          LET Added(added) ==
                  /\ store' = added.store
                  /\ nextId' = added.nextId
                  /\ ret' = PInt(added.rowcount)
                  /\ val' = [fn |-> "add_book", args |-> <<titulo, "Cd", ano, preco>>,
                             before |-> store, out |-> Ok(PInt(added.rowcount))]
          IN  Added(add_book(store, nextId, titulo, "Cd", ano, preco))
    /\ UNCHANGED <<fs, pc, imp, calls, hist>>

\* the table, the value returned and the call record after an update or a
\* removal answered with done
AfterWrite(fn, args, done) ==
    /\ store' = IF done.ok THEN done.v.store ELSE store
    /\ ret' = IF done.ok THEN PInt(done.v.rowcount) ELSE done
    /\ val' = [fn |-> fn, args |-> args, before |-> store,
               out |-> IF done.ok THEN Ok(PInt(done.v.rowcount)) ELSE done]

\* db.update_price(book_id, new_price)
UpdatePrice ==
    /\ pc = "db"
    /\ \E book_id \in StoreIds, new_price \in StorePrices :
          AfterWrite("update_price", <<book_id, new_price>>,
                     update_price(store, book_id, new_price))
    /\ UNCHANGED <<fs, nextId, pc, imp, calls, hist>>

\* db.remove_book(book_id)
RemoveBook ==
    /\ pc = "db"
    /\ \E book_id \in StoreIds :
          AfterWrite("remove_book", <<book_id>>, remove_book(store, book_id))
    /\ UNCHANGED <<fs, nextId, pc, imp, calls, hist>>

NextStore == AddBook \/ UpdatePrice \/ RemoveBook
SpecStore == InitStore /\ [][NextStore]_vars

(***************************************************************************)
(* The validators called on their own                                      *)
(***************************************************************************)
IsSubstring(sub, s) ==
    \E i \in 1..(Len(s) - Len(sub) + 1) : SubSeq(s, i, i + Len(sub) - 1) = sub

Labels == {"Título", "Ano de publicação"}

\* longest text handed to validate_text, and its characters: a letter, a
\* digit, a blank, punctuation, the multiplication sign (inside À-ÿ) and the
\* ordinal indicator (a letter outside the class)
MaxTextLen == 3
TextAlphabet == "a1 -×ª"
TextLenArgs == {<<DefaultMinLen, DefaultMaxLen>>, <<0, 2>>, <<2, 3>>, <<3, 1>>}
TextCalls ==
    {[fn |-> "validate_text", label |-> l, value |-> v, a |-> args[1], b |-> args[2],
      out |-> None] :
        l \in Labels,
        v \in {None} \cup {PStr(x) : x \in StringsUpTo(TextAlphabet, MaxTextLen)},
        args \in TextLenArgs}

\* longest free text handed to validate_year, and its characters
MaxYearLen == 3
YearAlphabet == "12+-_ a"
SmallMinYear == 12
YearEdges(min_year) ==
    {min_year - 1, min_year, min_year + 1, CurrentYear, CurrentYear + 1, CurrentYear + 2}
YearTexts(min_year) ==
    StringsUpTo(YearAlphabet, MaxYearLen)
    \cup {pre \o IntToStr(y) \o post :
            y \in YearEdges(min_year), pre \in {"", " ", "+", "-"}, post \in {"", "\n", ".0"}}
YearCalls ==
    {[fn |-> "validate_year", label |-> l, value |-> v, a |-> min_year, b |-> CurrentYear,
      out |-> None] :
        l \in Labels,
        min_year \in {DefaultMinYear, SmallMinYear},
        v \in {None} \cup {PStr(x) : x \in YearTexts(DefaultMinYear)}
                     \cup {PInt(y) : y \in YearEdges(DefaultMinYear)}}

\* longest free text handed to validate_price, and its characters; the other
\* texts are the bounds and their neighbours, halves to round, the decimal
\* comma, blanks, exponents and the words float() reads
MaxPriceLen == 3
PriceAlphabet == "15,. -e"
PriceEdges ==
    {"nan", "NaN", "inf", "-inf", "1000000", "1000000.00", "1000000.001", "1000000.01",
     "999999.995", "-0.001", "-0.0", "0.005", "0.015", "2.675", "1.005", "29,90",
     "1,5.0", "1.234,5", "1 0.5", " 3 , 5 ", "1,2,3", "1e3", "1_000", "+5", "12,5 0",
     "1 , 5.0", "1e7", "-5"}
PriceTexts == StringsUpTo(PriceAlphabet, MaxPriceLen) \cup PriceEdges
PriceCalls ==
    {[fn |-> "validate_price", label |-> l, value |-> v, a |-> DefaultMinPrice,
      b |-> DefaultMaxPrice, out |-> None] :
        l \in Labels,
        v \in {None} \cup {PStr(x) : x \in PriceTexts}
                     \cup {PInt(0), PInt(7), PInt(-1), PFloat(29900), PFloat(2675),
                           PFloat(1000000010), PNaN}}

\* one data row under the canonical header, as the row loop of
\* import_from_csv meets it, with the price cell to try
CanonicalCols ==
    [titulo |-> PStr("titulo"), autor |-> PStr("autor"),
     ano_publicacao |-> PStr("ano_publicacao"), preco |-> PStr("preco")]
RowWithPrice(cell) ==
    [k \in {"titulo", "autor", "ano_publicacao", "preco"} |->
        CASE k = "titulo" -> PStr("Ab")
          [] k = "autor" -> PStr("Cd")
          [] k = "ano_publicacao" -> PStr("1999")
          [] k = "preco" -> cell]
RowCalls ==
    {[fn |-> "import_row", label |-> "Preço", value |-> PStr(x), a |-> DefaultMinPrice,
      b |-> DefaultMaxPrice, out |-> None] : x \in PriceTexts}

\* records to normalize: dicts of up to MaxKeys items under the accepted
\* keys in either case and an unknown key, with empty, zero and null values,
\* dicts holding two keys of one field or an unknown key beside a known one,
\* lists of up to MaxItems elements, and objects
MaxKeys == 1
MaxItems == 6
NormalizeKeys ==
    {"id", "titulo", "title", "Title", "autor", "author", "Autor", "ano_publicacao",
     "ano", "year", "preco", "price", "isbn"}
NormalizeValues == {PStr("Ab"), PStr(""), PInt(0), PFloat(29900), None}
NormalizeEdges ==
    {<<<<"titulo", PStr("Ab")>>, <<"title", PStr("Zz")>>>>,
     <<<<"title", PStr("Zz")>>, <<"titulo", PStr("Ab")>>>>,
     <<<<"preco", PFloat(0)>>, <<"price", PInt(5)>>>>,
     <<<<"year", PInt(2001)>>, <<"ano", PInt(1999)>>, <<"ano_publicacao", PInt(0)>>>>,
     <<<<"titulo", PStr("Ab")>>, <<"isbn", PInt(3)>>, <<"preco", PFloat(29900)>>>>,
     <<<<"id", PInt(0)>>, <<"titulo", PStr("Ab")>>, <<"autor", PStr("Cd")>>,
       <<"ano_publicacao", PInt(1999)>>, <<"preco", PFloat(29900)>>>>}
NormalizeDicts ==
    {PDict(q) : q \in NormalizeEdges
                      \cup {q \in SeqsUpTo(NormalizeKeys \X NormalizeValues, MaxKeys) :
                              \A i, j \in 1..Len(q) : i # j => q[i][1] # q[j][1]}}
NormalizeLists == {PSeq(q) : q \in SeqsUpTo({PStr("Ab"), PInt(7), None}, MaxItems)}
NormalizeObjects ==
    {PObj([titulo |-> PStr("Oa"), autor |-> PStr("Ob"), ano_publicacao |-> PInt(2012),
           preco |-> PFloat(1000)]),
     PObj([id |-> PInt(3), titulo |-> PStr("Oa"), isbn |-> PStr("Ab")])}
NormalizeCalls ==
    {[fn |-> "_normalize_row", label |-> l, value |-> v, a |-> None, b |-> None, out |-> None] :
        l \in {"validators", "FileManager"},
        v \in NormalizeDicts \cup NormalizeLists \cup NormalizeObjects}

\* no call made yet
InitValidators ==
    /\ val = None
    /\ pc = "val"
    /\ fs = <<>>
    /\ store = <<>>
    /\ nextId = 1
    /\ imp = NoImport
    /\ calls = <<>>
    /\ ret = None
    /\ hist = <<>>

CallValidateText ==
    /\ pc = "val" /\ val = None
    /\ \E c \in TextCalls :
          val' = [c EXCEPT !.out = validate_text(c.label, c.value, c.a, c.b)]
    /\ UNCHANGED <<fs, store, nextId, pc, imp, calls, ret, hist>>

CallValidateYear ==
    /\ pc = "val" /\ val = None
    /\ \E c \in YearCalls :
          val' = [c EXCEPT !.out = validate_year(c.label, c.value, c.a, c.b)]
    /\ UNCHANGED <<fs, store, nextId, pc, imp, calls, ret, hist>>

CallValidatePrice ==
    /\ pc = "val" /\ val = None
    /\ \E c \in PriceCalls :
          val' = [c EXCEPT !.out = validate_price(c.label, c.value, c.a, c.b)]
    /\ UNCHANGED <<fs, store, nextId, pc, imp, calls, ret, hist>>

\* the try block of import_from_csv on one row, up to the validated values
CallRowValues ==
    /\ pc = "val" /\ val = None
    /\ \E c \in RowCalls :
          val' = [c EXCEPT !.out = RowValues(RowWithPrice(c.value), CanonicalCols)]
    /\ UNCHANGED <<fs, store, nextId, pc, imp, calls, ret, hist>>

\* _normalize_row of validators, or of FileManager, on one record
CallNormalizeRow ==
    /\ pc = "val" /\ val = None
    /\ \E c \in NormalizeCalls :
          val' = [c EXCEPT !.out = IF c.label = "validators" THEN _normalize_row(c.value)
                                   ELSE FM_normalize_row(c.value)]
    /\ UNCHANGED <<fs, store, nextId, pc, imp, calls, ret, hist>>

NextValidators ==
    CallValidateText \/ CallValidateYear \/ CallValidatePrice \/ CallRowValues
    \/ CallNormalizeRow

SpecValidators == InitValidators /\ [][NextValidators]_vars

\* the trimmed text of a raw value, null read as the empty string
TrimmedText(value) == IF value = None THEN "" ELSE Strip(PyStrOf(value))

TextDone == pc = "val" /\ val # None /\ val.fn = "validate_text"
YearDone == pc = "val" /\ val # None /\ val.fn = "validate_year"

\* C9 (as claimed): validate_text returns the trimmed string iff its length
\* lies in [min_len, max_len] and it holds an alphanumeric character; every
\* other input fails with a ValidationError naming the label, too-short
\* checked first, then too-long, then no-alphanumeric.
C9_TextAcceptsIffAlphanumeric ==
    TextDone =>
        LET s == TrimmedText(val.value)
            short == Len(s) < val.a
            long == Len(s) > val.b
            alnum == \E i \in 1..Len(s) : IsAlphanumeric(Ch(s, i))
        IN  /\ val.out.ok <=> (~short /\ ~long /\ alnum)
            /\ val.out.ok => val.out.v = s
            /\ ~val.out.ok =>
                 /\ val.out.exc = "ValidationError"
                 /\ IsSubstring(val.label, val.out.msg)
                 /\ short => IsSubstring("não pode ser vazio", val.out.msg)
                 /\ (~short /\ long) => IsSubstring("deve ter no máximo", val.out.msg)
                 /\ (~short /\ ~long) => IsSubstring("parece inválido", val.out.msg)

\* C10: validate_year returns y exactly for the inputs whose trimmed text
\* parses as an integer y with min_year <= y <= current_year + 1; an empty
\* or null input, an unparsable one and an out-of-range one fail with
\* ValidationErrors of three different messages, each naming the label.
C10_YearAcceptsExactlyRange ==
    YearDone =>
        LET s == TrimmedText(val.value)
            y == ParseInt(s)
            inRange == y.ok /\ val.a <= y.v /\ y.v <= val.b + 1
        IN  /\ val.out.ok <=> inRange
            /\ val.out.ok => val.out.v = y.v
            /\ ~val.out.ok =>
                 /\ val.out.exc = "ValidationError"
                 /\ IsSubstring(val.label, val.out.msg)
                 /\ IsSubstring("não pode ser vazio", val.out.msg) <=> s = ""
                 /\ IsSubstring("deve ser um número inteiro", val.out.msg)
                        <=> (s # "" /\ ~y.ok)
                 /\ IsSubstring("deve estar entre", val.out.msg)
                        <=> (y.ok /\ ~inRange)

\* C10 witness: the upper bound current_year + 1 itself is accepted
C10_Witness ==
    YearDone /\ val.a = DefaultMinYear /\ val.out.ok /\ val.out.v = CurrentYear + 1

PriceDone == pc = "val" /\ val # None /\ val.fn = "validate_price"

\* C11 (as claimed): with the default bounds validate_price returns only
\* numbers v with 0.00 <= v <= 1,000,000.00 that are whole numbers of cents,
\* and every failure is a ValidationError naming the label.
C11_PriceWithinRange ==
    PriceDone =>
        /\ val.out.ok =>
              /\ val.out.v.t = "float" /\ val.out.v.k = "fin"
              /\ ~val.out.v.neg /\ ~val.out.v.rest
              /\ val.out.v.m % 10 = 0
              /\ DefaultMinPrice <= val.out.v.m /\ val.out.v.m <= DefaultMaxPrice
        /\ ~val.out.ok =>
              val.out.exc = "ValidationError" /\ IsSubstring(val.label, val.out.msg)

\* a price text went through validate_price, or through the row loop
PriceTextDone ==
    /\ pc = "val" /\ val # None /\ val.fn \in {"validate_price", "import_row"}
    /\ val.value # None /\ val.value.t = "str"
\* what became of the price: the number validated, or the failure
PriceOutcome == IF val.fn = "import_row" /\ val.out.ok THEN Ok(val.out.v.preco) ELSE val.out
\* the text float() is to read for a price text: blanks dropped, and the
\* comma read as the decimal point when the text has no period
DecimalText(s) ==
    LET spaceless == ReplaceCh(Strip(s), " ", "")
    IN  IF Contains(spaceless, ",") /\ ~Contains(spaceless, ".")
        THEN ReplaceCh(spaceless, ",", ".") ELSE spaceless

\* C12: validate_price and the row loop of import_from_csv read a price text
\* with its blanks removed and, iff it holds a comma and no period, with its
\* commas as periods: the text is accepted exactly when float() reads that
\* text as a number within the bounds, which is then returned rounded; a
\* text with both a comma and a period is turned down as not a number.
C12_DecimalComma ==
    PriceTextDone =>
        LET s == val.value.s
            number == ParseFloat(DecimalText(s))
            within == /\ number.ok
                      /\ ~FloatLess(number.v, val.a) /\ ~FloatGreater(number.v, val.b)
        IN  /\ PriceOutcome.ok <=> (Strip(s) # "" /\ within)
            /\ PriceOutcome.ok => PriceOutcome.v = Round2(number.v)
            /\ (Contains(s, ",") /\ Contains(s, ".")) =>
                  /\ ~PriceOutcome.ok
                  /\ IsSubstring("deve ser um n", PriceOutcome.msg)

\* C12 witness: the row loop reads the cell "29,90" as 29.90
C12_Witness ==
    /\ PriceTextDone /\ val.fn = "import_row" /\ val.value.s = "29,90"
    /\ val.out.ok /\ val.out.v.preco = PFloat(29900)

\* _normalize_row was applied to a dict, to a list
DictNormalized == pc = "val" /\ val # None /\ val.fn = "_normalize_row" /\ val.value.t = "map"
ListNormalized == pc = "val" /\ val # None /\ val.fn = "_normalize_row" /\ val.value.t = "seq"
\* the accepted keys of the k-th canonical field
SynonymKeys(k) ==
    CASE k = 1 -> {"id"}
      [] k = 2 -> {"titulo", "title"}
      [] k = 3 -> {"autor", "author"}
      [] k = 4 -> {"ano_publicacao", "ano", "year"}
      [] k = 5 -> {"preco", "price"}
\* the values a dict holds under the keys of the k-th field, in any case
StoredUnder(items, k) ==
    {items[i][2] : i \in {i \in 1..Len(items) : Lower(items[i][1]) \in SynonymKeys(k)}}

\* C13 (as claimed): both _normalize_row give, for each canonical field of a
\* dict, a value the dict holds under an accepted key of that field, keys
\* compared without case, and null when it holds no such key; the values are
\* returned as they are.
C13_MappingNormalized ==
    DictNormalized =>
        \A k \in 1..5 :
            IF StoredUnder(val.value.items, k) = {} THEN val.out[k] = None
            ELSE val.out[k] \in StoredUnder(val.value.items, k)

\* C14: for a list or tuple both _normalize_row read by position: five or
\* more elements give the first five, exactly four give a null id followed by
\* the four, fewer give the elements followed by nulls; the result always
\* has five positions.
C14_SequencePositional ==
    ListNormalized =>
        LET e == val.value.items
        IN  /\ Len(val.out) = 5
            /\ Len(e) >= 5 => \A k \in 1..5 : val.out[k] = e[k]
            /\ Len(e) = 4 => val.out[1] = None /\ \A k \in 1..4 : val.out[k + 1] = e[k]
            /\ Len(e) < 4 => \A k \in 1..5 : val.out[k] = IF k <= Len(e) THEN e[k] ELSE None

\* C14 witness: a list of two elements came back padded with three nulls
C14_Witness ==
    /\ ListNormalized /\ val.label = "validators"
    /\ val.value.items = <<PInt(7), PStr("Ab")>>
    /\ val.out = <<PInt(7), PStr("Ab"), None, None, None>>

(***************************************************************************)
(* Properties of import_from_csv                                           *)
(***************************************************************************)
Range(q) == {q[k] : k \in 1..Len(q)}
IsPrefix(pre, s) == Len(pre) <= Len(s) /\ SubSeq(s, 1, Len(pre)) = pre
IsSuffix(suf, s) == Len(suf) <= Len(s) /\ SubSeq(s, Len(s) - Len(suf) + 1, Len(s)) = suf

\* a call has just finished, and it was a call of import_from_csv
Returned == pc = "idle" /\ hist # <<>>
Last == hist[Len(hist)]
ImportReturned == Returned /\ Last.fn = "import_from_csv"

\* what the file of a finished import holds: its header fields, its data
\* rows, the columns the header resolves to and each row's validation result
Parsed(e) ==
    LET reader == OpenReader(e.input.text)
        cols == ResolveColumns(HeadersMap(RawHeaders(reader.fieldnames)))
    IN  [header |-> reader.fieldnames,
         cols |-> cols,
         resolved |-> \A name \in Range(CanonicalNames) : cols[name] # None,
         rows |-> [j \in 1..Len(reader.rows) |-> RowValues(reader.rows[j], cols)]]
LineTag(n) == "Linha " \o IntToStr(n) \o ": "
\* the canonical columns left without a header
Unresolved(cols) == SelectSeq(CanonicalNames, LAMBDA name : cols[name] = None)

\* C1: once the file exists and the header resolves, every data row gets its
\* own outcome whatever happened to the rows before it: each valid row is
\* handed to db.add_book with its validated values, each invalid row gets its
\* own error entry, and no row is left out.
C1_RowsIndependent ==
    (ImportReturned /\ Last.input # NoFile) =>
        LET e == Last
            f == Parsed(e)
        IN  f.resolved =>
              /\ e.processed = Len(f.rows)
              /\ Len(e.calls) + Len(e.ret[3]) = Len(f.rows)
              /\ \A j \in 1..Len(f.rows) :
                    IF ~f.rows[j].ok
                    THEN /\ LineTag(j + 1) \o f.rows[j].msg \in Range(e.ret[3])
                         /\ \A c \in Range(e.calls) : c.line # j + 1
                    ELSE /\ \E c \in Range(e.calls) :
                               /\ c.line = j + 1
                               /\ [titulo |-> c.titulo, autor |-> c.autor, ano |-> c.ano,
                                   preco |-> c.preco] = f.rows[j].v
                         /\ \A m \in Range(e.ret[3]) : ~IsPrefix(LineTag(j + 1), m)

\* C1 witness: a failing first row followed by a valid second row that is
\* handed to db.add_book
C1_Witness ==
    /\ ImportReturned /\ Last.input # NoFile
    /\ LET f == Parsed(Last)
       IN  /\ f.resolved /\ Len(f.rows) = 2
           /\ ~f.rows[1].ok /\ f.rows[2].ok
           /\ \E c \in Range(Last.calls) : c.line = 3 /\ c.rowcount = 1

\* C2 (as claimed): importing the same file of N valid rows with pairwise
\* distinct keys twice into an empty store yields inserted = N on the first
\* run and inserted = 0 on the second, whose skipped count reflects the
\* duplicate signal of add_book.
C2_SecondImportInsertsNothing ==
    (ImportReturned /\ Len(hist) = 2 /\ hist[1].fn = "import_from_csv") =>
        LET first == hist[1]
            second == hist[2]
            n == first.processed
        IN  (/\ first.input = second.input /\ first.input # NoFile
             /\ first.before = <<>>
             /\ n > 0 /\ Len(first.calls) = n
             /\ \A c \in Range(first.calls) : c.rowcount = 1)
            => /\ first.ret[1] = n
               /\ second.ret[1] = 0
               /\ second.ret[2] = n

\* C3: import_from_csv fails before processing any row in exactly two cases,
\* the path does not exist or header resolution fails; in both it returns
\* (0, 0, errors) with a single message (naming the resolved path, resp. the
\* missing columns), no call of db.add_book made and no row validated; in
\* every other case every row of the file is processed.
C3_FailsEarlyInTwoCases ==
    ImportReturned =>
        LET e == Last
            notFound == e.input = NoFile
            f == Parsed(e)
            early == e.processed = 0 /\ e.ret[3] # <<>>
        IN  /\ early <=> (notFound \/ ~f.resolved)
            /\ notFound =>
                  /\ e.ret = <<0, 0, <<"Arquivo não encontrado: " \o e.path>>>>
                  /\ e.path = Resolve(InPath)
            /\ (~notFound /\ ~f.resolved) =>
                  /\ e.ret[1] = 0 /\ e.ret[2] = 0 /\ Len(e.ret[3]) = 1
                  /\ IsPrefix("Cabeçalho inválido.", e.ret[3][1])
                  /\ IsSuffix("Faltando: " \o Join(Unresolved(f.cols), ", "), e.ret[3][1])
            /\ early => e.calls = <<>> /\ store = e.before
            /\ ~early => e.processed = Len(f.rows)

\* C3 witness: a file with four or more header fields whose header does not
\* resolve is turned down with a single message
C3_Witness ==
    /\ ImportReturned /\ Last.input # NoFile
    /\ ~Parsed(Last).resolved
    /\ Len(Parsed(Last).header) >= 4
    /\ Last.ret[1] = 0 /\ Last.ret[2] = 0 /\ Len(Last.ret[3]) = 1

\* a header field matches a name: equal once trimmed and lower-cased
Matches(h, name) == Lower(Strip(h)) = name
\* the canonical columns none of whose accepted names matches a header field
Unmatched(header) ==
    SelectSeq(CanonicalNames,
              LAMBDA name : ~\E h \in Range(header) :
                              \E syn \in Range(CSV_COLUMN_ALIASES[name]) : Matches(h, syn))
HeaderFailure(e) == e.ret[3] # <<>> /\ IsPrefix("Cabeçalho inválido.", e.ret[3][1])

\* C4: header resolution fails iff one of the four required fields has no
\* header matching any of its synonyms; the missing list reported is exactly
\* the canonical names of the unmatched fields; an id column is never needed
\* and never in the way.
C4_HeaderResolution ==
    (ImportReturned /\ Last.input # NoFile) =>
        LET e == Last
            header == OpenReader(e.input.text).fieldnames
            unmatched == Unmatched(header)
        IN  /\ HeaderFailure(e) <=> unmatched # <<>>
            /\ HeaderFailure(e) =>
                  /\ e.ret = <<0, 0, <<MissingHeaderMessage(unmatched)>>>>
                  /\ IsSuffix(". Faltando: " \o Join(unmatched, ", "), e.ret[3][1])
            /\ \A h \in Range(header) : Matches(h, "id") =>
                  (HeaderFailure(e) <=> Unmatched(SelectSeq(header, LAMBDA x : x # h)) # <<>>)

\* C4 witness: a header with an id column and the title under a synonym
\* fails for want of exactly the author and the price
C4_Witness ==
    /\ ImportReturned /\ Last.input # NoFile
    /\ HeaderFailure(Last)
    /\ LET header == OpenReader(Last.input.text).fieldnames
       IN  /\ "id" \in Range(header) /\ "Title" \in Range(header)
           /\ Unmatched(header) = <<"autor", "preco">>

\* the number n of an error entry "Linha n: message", 0 if it has none
LineOf(m, most) ==
    LET fits == {n \in 1..most : IsPrefix(LineTag(n), m)}
    IN  IF fits = {} THEN 0 ELSE MaxOf(fits)

\* C5: every per-row error is "Linha n: message" with n the 1-based position
\* of the failing data row plus 1 and message that row's failure; the errors
\* come in strictly increasing n, at most one per row.
C5_ErrorsLineTagged ==
    (ImportReturned /\ Last.input # NoFile) =>
        LET e == Last
            f == Parsed(e)
            errors == e.ret[3]
            most == Len(f.rows) + 2
            failing == {j \in 1..Len(f.rows) : ~f.rows[j].ok}
        IN  f.resolved =>
              /\ \A k \in 1..Len(errors) :
                    LET n == LineOf(errors[k], most)
                    IN  /\ n - 1 \in failing
                        /\ errors[k] = "Linha " \o IntToStr(n) \o ": " \o f.rows[n - 1].msg
              /\ \A k \in 1..(Len(errors) - 1) :
                    LineOf(errors[k], most) < LineOf(errors[k + 1], most)
              /\ Len(errors) = Cardinality(failing)
              /\ e.ret[2] = Len(errors)

\* C5 witness: the first and the second data row both fail, reported as
\* lines 2 and 3
C5_Witness ==
    /\ ImportReturned /\ Last.input # NoFile
    /\ Parsed(Last).resolved
    /\ Len(Last.ret[3]) = 2
    /\ IsPrefix("Linha 2: ", Last.ret[3][1])
    /\ IsPrefix("Linha 3: ", Last.ret[3][2])

\* the accepted names of a column, the canonical one first
SynonymOrder(name) ==
    CASE name = "titulo" -> <<"titulo", "title">>
      [] name = "autor" -> <<"autor", "author">>
      [] name = "ano_publicacao" -> <<"ano_publicacao", "ano", "year">>
      [] name = "preco" -> <<"preco", "price">>
\* the header fields of a file's first line and the text after that line
RECURSIVE SplitAt(_, _)
SplitAt(s, c) ==
    IF ~Contains(s, c) THEN <<s>>
    ELSE LET Cut(i) == <<SubSeq(s, 1, i - 1)>> \o SplitAt(SubSeq(s, i + 1, Len(s)), c)
         IN  Cut(FirstIndex(s, c))
HeaderFields(text) == SplitAt(SubSeq(text, 1, FirstIndex(text, "\n") - 1), ",")
AfterHeader(text) == SubSeq(text, FirstIndex(text, "\n") + 1, Len(text))
\* four header fields naming titulo, autor, ano_publicacao and preco, in
\* this order, each by one of its accepted names in either case
NamesTheFour(header) ==
    /\ Len(header) = 4
    /\ \A k \in 1..4 : Lower(header[k]) \in Range(SynonymOrder(CanonicalNames[k]))
\* the values handed to add_book, without what it answered
Handed(log) ==
    [k \in 1..Len(log) |-> <<log[k].line, log[k].titulo, log[k].autor, log[k].ano, log[k].preco>>]

\* C15: once the header of an import resolved, the column chosen for each
\* canonical field is a header field equal, ignoring case, to the first of
\* the field's accepted names (canonical name first) that occurs in the
\* header; and of two files holding the same data rows, one under the
\* canonical header and one under a header naming the four columns by other
\* accepted names, imported one after the other, the second import returns
\* what the first returned, hands the same values to add_book and adds no
\* record to those the first stored.
C15_AliasPriority ==
    /\ pc = "rows" =>
          LET Chosen(headers, lowered) ==
                  \A name \in Range(CanonicalNames) :
                      LET syn == SynonymOrder(name)
                          occurring == {j \in 1..Len(syn) : syn[j] \in lowered}
                      IN  /\ occurring # {}
                          /\ imp.cols[name] # None
                          /\ imp.cols[name].s \in headers
                          /\ Lower(imp.cols[name].s) = syn[MinOf(occurring)]
              Read(header) ==
                  Chosen({Strip(h) : h \in Range(header)},
                         {Lower(Strip(h)) : h \in Range(header)})
          IN  Read(HeaderFields(imp.input.text))
    /\ (/\ pc = "idle" /\ Len(hist) = 2
        /\ hist[1].path # hist[2].path
        /\ NamesTheFour(HeaderFields(hist[1].input.text))
        /\ NamesTheFour(HeaderFields(hist[2].input.text))
        /\ AfterHeader(hist[1].input.text) = AfterHeader(hist[2].input.text)) =>
          /\ hist[2].ret = hist[1].ret
          /\ Handed(hist[2].calls) = Handed(hist[1].calls)
          /\ hist[2].processed = hist[1].processed
          /\ store = hist[2].before

\* C15 witness: the rows under Title,Author,Year,Price, imported after the
\* same rows under the canonical header, with one row stored and one skipped
C15_Witness ==
    /\ pc = "idle" /\ Len(hist) = 2
    /\ hist[1].path # hist[2].path
    /\ HeaderFields(hist[1].input.text) = CanonicalNames
    /\ HeaderFields(hist[2].input.text) = <<"Title", "Author", "Year", "Price">>
    /\ hist[2].ret[1] = 1 /\ hist[2].ret[2] = 1
    /\ Len(store) = 1

\* the messages of the exceptions db.add_book may raise
StorageMessages == {e.msg : e \in StorageErrors}

\* C16: no exception raised at a row leaves import_from_csv: the call always
\* returns, and each row whose processing raised, in a validator or in
\* db.add_book, is one skipped row with one error entry carrying its line
\* and the exception's message, the other rows being inserted.
C16_RowExceptionsCaught ==
    /\ pc # "raised"
    /\ (ImportReturned /\ Last.input # NoFile) =>
          LET e == Last
              f == Parsed(e)
          IN  f.resolved =>
                /\ e.processed = Len(f.rows)
                /\ e.ret[1] = Len(e.calls)
                /\ e.ret[2] = Len(e.ret[3])
                /\ e.ret[1] + e.ret[2] = Len(f.rows)
                /\ \A j \in 1..Len(f.rows) :
                      LET called == {k \in 1..Len(e.calls) : e.calls[k].line = j + 1}
                          tagged == {k \in 1..Len(e.ret[3]) : IsPrefix(LineTag(j + 1), e.ret[3][k])}
                      IN  /\ Cardinality(called) + Cardinality(tagged) = 1
                          /\ ~f.rows[j].ok =>
                                \E k \in tagged : e.ret[3][k] = LineTag(j + 1) \o f.rows[j].msg
                          /\ (f.rows[j].ok /\ called = {}) =>
                                \E k \in tagged, m \in StorageMessages :
                                    e.ret[3][k] = LineTag(j + 1) \o m

\* C16 witness: db.add_book raised at the first row and the second was inserted
C16_Witness ==
    /\ ImportReturned /\ Last.input # NoFile
    /\ Last.ret = <<1, 1, <<"Linha 2: database is locked">>>>
    /\ Len(Last.calls) = 1 /\ Last.calls[1].line = 3 /\ Last.calls[1].rowcount = 1

(***************************************************************************)
(* Properties of DBManager                                                 *)
(***************************************************************************)
\* a call of the store has just returned
StoreCalled(fn) == pc = "db" /\ val # None /\ val.fn = fn
\* no two stored rows with the same (titulo, autor, ano_publicacao)
KeysUnique(table) ==
    \A i, j \in 1..Len(table) :
        i # j => ~SameKey(table[i], table[j].titulo, table[j].autor, table[j].ano_publicacao)
\* the stored rows without their ids
Content(table) ==
    {[titulo |-> b.titulo, autor |-> b.autor, ano_publicacao |-> b.ano_publicacao,
      preco |-> b.preco] : b \in Range(table)}

\* C18 (as claimed): the stored rows never share a key; add_book returns 1
\* and adds exactly the one row when no stored row has the key, and returns 0
\* leaving every stored row as it was when one has.
C18_StoreUniqueness ==
    /\ pc = "db" => KeysUnique(store)
    /\ StoreCalled("add_book") =>
          LET titulo == val.args[1]
              autor == val.args[2]
              ano == val.args[3]
              preco == val.args[4]
              had == \E b \in Range(val.before) : SameKey(b, titulo, autor, ano)
          IN  IF had THEN val.out = Ok(PInt(0)) /\ store = val.before
              ELSE /\ val.out = Ok(PInt(1))
                   /\ Len(store) = Len(val.before) + 1
                   /\ SubSeq(store, 1, Len(val.before)) = val.before
                   /\ Content(store) = Content(val.before)
                         \cup {[titulo |-> titulo, autor |-> autor, ano_publicacao |-> ano,
                                preco |-> preco]}

(***************************************************************************)
(* Properties of export_to_csv                                             *)
(***************************************************************************)
ExportReturned == Returned /\ Last.fn = "export_to_csv"

\* a record is canonical: a title and an author that validate_text returns
\* unchanged, a year validate_year returns unchanged, a price validate_price
\* returns unchanged
IsCanonical(r) ==
    /\ r[2] # None /\ r[2].t = "str"
    /\ validate_text("Título", r[2], DefaultMinLen, DefaultMaxLen) = Ok(r[2].s)
    /\ r[3] # None /\ r[3].t = "str"
    /\ validate_text("Autor", r[3], DefaultMinLen, DefaultMaxLen) = Ok(r[3].s)
    /\ r[4] # None /\ r[4].t = "int"
    /\ validate_year("Ano de publicação", r[4], DefaultMinYear, CurrentYear) = Ok(r[4].n)
    /\ r[5] # None /\ r[5].t = "float"
    /\ validate_price("Preço", r[5], DefaultMinPrice, DefaultMaxPrice) = Ok(r[5])
KeyOf(r) == <<r[2], r[3], r[4]>>

\* C6 (as claimed): exporting N canonical records with pairwise distinct keys
\* and importing the file written into an empty store yields inserted = N,
\* skipped = 0 and a store holding exactly the (title, author, year, price)
\* of the records exported.
C6_RoundTrip ==
    (/\ ImportReturned /\ Len(hist) = 2
     /\ hist[1].fn = "export_to_csv" /\ hist[2].path = hist[1].path
     /\ hist[2].before = <<>>) =>
        LET books == hist[1].input
            rows == [k \in 1..Len(books) |-> FM_normalize_row(books[k])]
        IN  (/\ \A k \in 1..Len(rows) : IsCanonical(rows[k])
             /\ \A j, k \in 1..Len(rows) : j # k => KeyOf(rows[j]) # KeyOf(rows[k]))
            => /\ hist[2].ret = <<Len(rows), 0, <<>>>>
               /\ {<<PStr(b.titulo), PStr(b.autor), PInt(b.ano_publicacao), b.preco>> :
                      b \in Range(store)}
                  = {<<rows[k][2], rows[k][3], rows[k][4], rows[k][5]>> : k \in 1..Len(rows)}

\* what a reader finds in the file just written, read back with the dialect
\* it was written in
WrittenRecords == CsvReader(fs[Last.path].text, ExcelDialect)

\* C7: export_to_csv decides the id column once for the whole file: header
\* and rows carry an id field iff some normalized record has a non-null id,
\* records with a null id then get an empty id cell; and every row written
\* has as many fields as the header.
C7_IdColumnAllOrNothing ==
    ExportReturned =>
        LET books == Last.input
            rows == [k \in 1..Len(books) |-> FM_normalize_row(books[k])]
            anyId == \E k \in 1..Len(rows) : rows[k][1] # None
            written == WrittenRecords
            tail == <<"titulo", "autor", "ano_publicacao", "preco">>
        IN  /\ Len(written) = Len(books) + 1
            /\ written[1] = IF anyId THEN <<"id">> \o tail ELSE tail
            /\ \A k \in 1..Len(books) :
                  /\ Len(written[k + 1]) = Len(written[1])
                  /\ anyId => (written[k + 1][1] = "" <=> rows[k][1] = None)

\* C7 witness: a record with an id and a record with a null id exported
\* together, the second with an empty id cell
C7_Witness ==
    /\ ExportReturned /\ Len(Last.input) = 2
    /\ FM_normalize_row(Last.input[1])[1] # None
    /\ FM_normalize_row(Last.input[2])[1] = None
    /\ WrittenRecords[1][1] = "id"
    /\ WrittenRecords[3][1] = ""

\* digits, a period, two digits
IsTwoDecimals(s) ==
    /\ Len(s) >= 4
    /\ Ch(s, Len(s) - 2) = "."
    /\ \A i \in 1..Len(s) : i # Len(s) - 2 => IsDigit(Ch(s, i))

\* C8 (as claimed): the price cell of every data row written by
\* export_to_csv shows exactly two decimal digits, for every numeric price.
C8_PriceTwoDecimals ==
    ExportReturned =>
        LET books == Last.input
            written == WrittenRecords
        IN  \A k \in 1..Len(books) :
                FM_normalize_row(books[k])[5].t \in {"int", "float"}
                    => IsTwoDecimals(written[k + 1][Len(written[k + 1])])

\* ---------------------------------------------------------------------------
\* Properties of LivrariaCLI
\* ---------------------------------------------------------------------------

\* the handler a turn of the menu called, "" when it called none
HandlerOf(turn) ==
    LET calls_made == {k \in DOMAIN turn.events : turn.events[k].ev = "call"}
    IN  IF calls_made = {} THEN "" ELSE turn.events[MinOf(calls_made)].arg
\* the positions, among the events of a turn, of the backups and of the
\* mutating storage calls
BackupsOf(turn) == {k \in DOMAIN turn.events : turn.events[k].ev = "backup_db"}
MutatingCalls == {"add_book", "update_price", "remove_book"}
MutationsOf(turn) == {k \in DOMAIN turn.events : turn.events[k].ev \in MutatingCalls}
MutatingHandlers == {"adicionar_livro", "atualizar_preco", "remover_livro", "importar_csv"}

\* C17: a run of adicionar_livro, atualizar_preco, remover_livro or
\* importar_csv never takes more than one backup, and a run of any handler
\* that makes a mutating storage call (add_book, update_price, remove_book)
\* has taken exactly one backup, before the first of these calls
C17_BackupBeforeMutation ==
    \A i \in 1..Len(hist) :
        /\ HandlerOf(hist[i]) \in MutatingHandlers =>
               Cardinality(BackupsOf(hist[i])) <= 1
        /\ MutationsOf(hist[i]) # {} =>
               /\ HandlerOf(hist[i]) \in MutatingHandlers
               /\ Cardinality(BackupsOf(hist[i])) = 1
               /\ \A b \in BackupsOf(hist[i]) : \A m \in MutationsOf(hist[i]) : b < m
\* an import that added a book after a removal was asked for
C17_Witness ==
    /\ Len(hist) = 2
    /\ HandlerOf(hist[1]) = "remover_livro" /\ MutationsOf(hist[1]) # {}
    /\ HandlerOf(hist[2]) = "importar_csv" /\ MutationsOf(hist[2]) # {}
    /\ Len(store) > 0

\* the table a turn of the menu left
AfterTurn(i) == IF i < Len(hist) THEN hist[i + 1].before ELSE store
\* the last line a turn printed
LastPrinted(turn) ==
    LET prints == {k \in DOMAIN turn.events : turn.events[k].ev = "print"}
    IN  turn.events[MaxOf(prints)].arg
\* the rows of a table that have the id asked for
RowsWithId(table, book_id) ==
    {k \in DOMAIN table : ~IsWide(book_id) /\ table[k].id = book_id.n}
\* the table with the rows at the given positions left out
Without(table, gone) == SelectSeq(table, LAMBDA row : \A k \in gone : table[k] # row)
\* a storage call answered with the row count n, the table went from
\* before to after, and the handler ended on the line said
Answered(turn, k, n, after, expected, said) ==
    /\ turn.events[k].res = PInt(n)
    /\ after = expected
    /\ turn.raised = None
    /\ LastPrinted(turn) = said

\* C19: update_price and remove_book with an id no stored row has return 0,
\* leave the table as it was, and the handler prints "ID não encontrado.";
\* with the id of a stored row they return 1, update_price changes the price
\* of that row and nothing else, remove_book deletes that row and nothing
\* else, and the handler prints its success line
C19_UnknownIdZeroKnownIdOne ==
    \A i \in 1..Len(hist) : \A k \in DOMAIN hist[i].events :
        LET turn == hist[i]
            call == turn.events[k]
            hit  == RowsWithId(turn.before, call.arg[1])
        IN  /\ call.ev = "update_price" =>
                  IF hit = {}
                  THEN Answered(turn, k, 0, AfterTurn(i), turn.before, "ID não encontrado.")
                  ELSE Answered(turn, k, 1, AfterTurn(i),
                                [j \in DOMAIN turn.before |->
                                    IF j \in hit
                                    THEN [turn.before[j] EXCEPT !.preco = call.arg[2]]
                                    ELSE turn.before[j]],
                                "Preço atualizado com sucesso!")
            /\ call.ev = "remove_book" =>
                  IF hit = {}
                  THEN Answered(turn, k, 0, AfterTurn(i), turn.before, "ID não encontrado.")
                  ELSE Answered(turn, k, 1, AfterTurn(i), Without(turn.before, hit),
                                "Livro removido com sucesso!")

\* the handlers a turn of the menu called, in the order of the calls
CallsOf(turn) ==
    SelectSeq([k \in DOMAIN turn.events |-> turn.events[k]], LAMBDA e : e.ev = "call")
\* after turn i the loop asks for another option
Continues(i) == i < Len(hist) \/ pc = "menu"
\* turn i is the last one and the loop has ended by its break
Ends(i) == i = Len(hist) /\ pc = "exit"

\* C20: each option "1".."10" calls its one handler once and the loop goes
\* on; "11" calls no handler and ends the loop; any other input calls no
\* handler, prints the invalid-option line and the loop goes on; the loop
\* stops in no other way
C20_MenuEndsExactlyOnSair ==
    /\ \A i \in 1..Len(hist) :
          LET opcao == Strip(hist[i].input)
          IN  IF opcao \in DOMAIN MenuActions
              THEN /\ Len(CallsOf(hist[i])) = 1
                   /\ CallsOf(hist[i])[1].arg = MenuActions[opcao]
                   /\ Continues(i)
              ELSE IF opcao = "11"
              THEN CallsOf(hist[i]) = <<>> /\ Ends(i)
              ELSE /\ CallsOf(hist[i]) = <<>>
                   /\ LastPrinted(hist[i]) = "Opção inválida. Tente novamente."
                   /\ Continues(i)
    /\ pc # "menu" => Len(hist) > 0 /\ Ends(Len(hist))

\* ---------------------------------------------------------------------------
\* Properties of backup_db and clean_old_backups
\* ---------------------------------------------------------------------------

\* a backup was taken, and the files are as that call left them
BackupDone == pc = "files" /\ val # None
\* the files of the directory that match the backup pattern
KeptBackups == {e \in Range(fs.dir) : MatchesBackupPattern(e.name)}

\* C21: after a backup_db whose deletions all succeeded the directory holds
\* at most max_backups files that match backup_livraria_*.db, and no file
\* the cleanup removed is newer than a file it kept
C21_BackupRotation ==
    BackupDone /\ val.denied = {} =>
        /\ Cardinality(KeptBackups) <= max_backups
        /\ \A gone \in val.removed : \A kept \in KeptBackups : gone.mtime <= kept.mtime
\* C21 witness: a backup over a directory of more than max_backups files of
\* different ages removed two of them and left max_backups
C21_Witness ==
    /\ BackupDone /\ val.denied = {}
    /\ Cardinality(val.removed) = 2
    /\ Cardinality(KeptBackups) = max_backups
    /\ \E gone \in val.removed : \E kept \in KeptBackups : gone.mtime < kept.mtime

\* C25 (as claimed): the file backup_db returns the path of is in the
\* directory when backup_db returns: the cleanup never removes the backup
\* just made
C25_NewBackupKept ==
    BackupDone => val.ret \in NamesIn(fs.dir)

\* ---------------------------------------------------------------------------
\* Properties of the row loop of import_from_csv
\* ---------------------------------------------------------------------------

\* the row loop of an import is running or has just ended
InRowLoop == pc = "rows"
\* a validated text: trimmed, not empty, of at most 200 characters, with an
\* alphanumeric character
CanonicalText(s) ==
    /\ Strip(s) = s
    /\ 1 <= Len(s) /\ Len(s) <= 200
    /\ \E i \in 1..Len(s) : IsAlphanumeric(Ch(s, i))
\* a validated year: an integer from 1400 to the year after the current one
CanonicalYear(y) == y \in Int /\ 1400 <= y /\ y <= CurrentYear + 1
\* a validated price: a number of whole cents from 0 to 1,000,000 (prices are
\* held in thousandths)
CanonicalPrice(p) ==
    /\ p.t = "float" /\ p.k = "fin" /\ ~p.neg /\ ~p.rest
    /\ 0 <= p.m /\ p.m <= 1000000 * 1000
    /\ p.m % 10 = 0
\* the four validators applied to the cells of a row, each on its own, in
\* the order title, author, year, price
EachValidator(row, cols) ==
    <<validate_text("Título", RowGet(row, cols.titulo), DefaultMinLen, DefaultMaxLen),
      validate_text("Autor", RowGet(row, cols.autor), DefaultMinLen, DefaultMaxLen),
      validate_year("Ano de publicação", RowGet(row, cols.ano_publicacao),
                    DefaultMinYear, CurrentYear),
      validate_price("Preço", PStr(ReplaceCh(PyStrOf(RowGet(row, cols.preco)), " ", "")),
                     DefaultMinPrice, DefaultMaxPrice)>>
\* the add_book calls and the error entries of the data row at position j
CallsOfRow(j) == {k \in 1..Len(calls) : calls[k].line = j + 1}
ErrorsOfRow(j) == {k \in 1..Len(imp.errors) : IsPrefix(LineTag(j + 1), imp.errors[k])}

\* C22 (as claimed): every record the row loop hands to db.add_book is
\* canonical; a row for which one of the four validators fails makes no
\* add_book call, and its one error entry is the failure of the first of
\* title, author, year, price that fails
C22_OnlyCanonicalRecordsAdded ==
    InRowLoop =>
        /\ \A k \in 1..Len(calls) :
              /\ CanonicalText(calls[k].titulo)
              /\ CanonicalText(calls[k].autor)
              /\ CanonicalYear(calls[k].ano)
              /\ CanonicalPrice(calls[k].preco)
        /\ \A j \in 1..imp.pos :
              LET each == EachValidator(imp.rows[j], imp.cols)
                  failed == {v \in 1..4 : ~each[v].ok}
              IN  failed # {} =>
                    /\ CallsOfRow(j) = {}
                    /\ Cardinality(ErrorsOfRow(j)) = 1
                    /\ \A k \in ErrorsOfRow(j) :
                          imp.errors[k] = LineTag(j + 1) \o each[MinOf(failed)].msg

\* the data rows of the file of a finished import: the lines after the
\* header that are not empty
DataRowsRead(e) ==
    LET lines == SplitAt(e.input.text, "\n")
    IN  Cardinality({k \in 2..Len(lines) : lines[k] # ""})

\* C24: in the row loop inserted + skipped is the number of rows processed
\* and errors has one entry per skipped row; from one turn of the loop to
\* the next no counter falls and errors only gets longer; and the import of
\* an existing file whose header resolves returns inserted + skipped equal
\* to the number of data rows read, with one error entry per skipped row
C24_ImportAccounting ==
    /\ [](InRowLoop =>
            /\ imp.inserted + imp.skipped = imp.pos
            /\ Len(imp.errors) = imp.skipped
            /\ imp.pos <= Len(imp.rows))
    /\ [][(InRowLoop /\ pc' = "rows") =>
            /\ imp'.inserted >= imp.inserted
            /\ imp'.skipped >= imp.skipped
            /\ imp'.inserted + imp'.skipped = imp.inserted + imp.skipped + 1
            /\ IsPrefix(imp.errors, imp'.errors)]_vars
    /\ []((ImportReturned /\ Last.input # NoFile /\ ~HeaderFailure(Last)) =>
            /\ Last.ret[1] + Last.ret[2] = DataRowsRead(Last)
            /\ Len(Last.ret[3]) = Last.ret[2])
\* C24 witness: an import of two rows returned after the first was turned
\* down by a validator and the second by the database
C24_Witness ==
    /\ ImportReturned /\ Last.input # NoFile
    /\ Last.ret[1] = 0 /\ Last.ret[2] = 2 /\ DataRowsRead(Last) = 2
    /\ Last.ret[3][1] \notin {LineTag(2) \o m : m \in StorageMessages}
    /\ Last.ret[3][2] \in {LineTag(3) \o m : m \in StorageMessages}

\* import_from_csv returned from the first call of a session in which the
\* menu's import of the same file into an equal database is on record
BothImported ==
    /\ ImportReturned /\ Len(hist) = 1 /\ Last.input # NoFile
    /\ val # None /\ val.fn = "importar_csv" /\ val.before = Last.before
\* the arguments of the add_book calls among the events of a handler
AddBookArgs(events) ==
    LET added == SelectSeq(events, LAMBDA e : e.ev = "add_book")
    IN  [k \in 1..Len(added) |-> added[k].arg]
\* the lines a handler printed after it took its backup
PrintedAfterBackup(events) ==
    LET taken == {k \in 1..Len(events) : events[k].ev = "backup_db"}
    IN  IF taken = {} THEN <<>>
        ELSE SelectSeq(SubSeq(events, MinOf(taken) + 1, Len(events)),
                       LAMBDA e : e.ev = "print")

\* C23 (as claimed): for the same file and the same initial store
\* importar_csv and import_from_csv make the same add_book calls in the same
\* order, leave the same rows stored, and importar_csv reports the inserted
\* count, the skipped count and the line-tagged errors that import_from_csv
\* returns
C23_CliImportAgrees ==
    BothImported =>
        /\ AddBookArgs(val.done.events)
              = [k \in 1..Len(Last.calls) |->
                    <<Last.calls[k].titulo, Last.calls[k].autor, Last.calls[k].ano,
                      Last.calls[k].preco>>]
        /\ val.done.store = store
        /\ PrintedAfterBackup(val.done.events)
              = Summary([inseridos |-> Last.ret[1], ignorados |-> Last.ret[2],
                         erros |-> Last.ret[3]])

====
